---- MODULE Spec2Model ----
(***************************************************************************)
(* A model of easylb: the discovery watcher (internal/lb watcher with SSE  *)
(* stream, debounce and full/incremental sync) and the route table it      *)
(* publishes into.                                                         *)
(*                                                                         *)
(* Go strings that the code parses (host names, route patterns, the tag    *)
(* filter) are sequences of one-character strings, so that prefix, suffix, *)
(* count and index operations are computed as the code computes them.      *)
(* A Go map is a function with a finite domain; a lookup of an absent key  *)
(* yields the zero value, as in Go.                                        *)
(***************************************************************************)
EXTENDS Integers, Sequences, FiniteSets, TLC

VARIABLES
    cancelled,   \* ctx has been cancelled (ctx.Done() is closed)
    pc,          \* position of the goroutine running Watcher.Run
    stack,       \* active sync / syncJob calls, innermost last
    base,        \* which statement of watchSSE made the outermost call
    fireTodo,    \* jobs the `for job := range pending` loop has yet to visit
    agentHosts,  \* Watcher.agentHosts
    jobs,        \* Watcher.jobs
    relevant,    \* Watcher.relevant
    tasks,       \* Watcher.tasks
    routes,      \* RouteTable.routes
    pending,     \* watchSSE's pending set
    debounce,    \* watchSSE's debounce timer: "stopped", "armed", "fired"
    reader,      \* the line-reader goroutine: "none", "scan", "send", "closed", "stuck"
    line,        \* the line the reader is handing over on lineCh
    att,         \* history: the current outermost sync attempt
    cyc,         \* history: the current debounce cycle
    events,      \* history: events accepted in the current debounce window
    tagFilter,   \* Watcher.tagFilter
    rtWriter,    \* RouteTable.mu is held for writing
    rtReaders,   \* the Match calls that hold RouteTable.mu for reading
    upc,         \* position of a caller of RouteTable.Update
    uarg,        \* that call's argument
    mpc,         \* position of each caller of RouteTable.Match
    mreq,        \* history: each Match call's argument
    mhost,       \* each Match call's host, as stripped so far
    mres,        \* each Match call's result
    mseen,       \* history: the values rt.routes had while the call held the lock
    skipped,     \* history: the last line received was a discarded event
    orch,        \* the orchestrator: its job list, each job's status and the events
                 \* it has announced that the stream has yet to deliver
    next,        \* Route.next of the route whose backends are served
    backends,    \* that route's Backends: the Healthy flag of each
    gpc,         \* position of each caller of Route.GetHealthyBackend
    gstart,      \* each call's start
    gres,        \* each call's result: an index into Backends, 0 for nil
    served,      \* history: how often each backend has been returned
    calls,       \* history: calls that have incremented the cursor
    requests,        \* Metrics.requests: domain -> backend -> status code -> count
    latencySamples,  \* Metrics.latencySamples: domain -> backend -> samples
    sortedCache,     \* Metrics.sortedCache: domain -> backend -> sorted snapshot
    hist,        \* history: per (domain, backend), every RecordRequest call in order
    qpc,         \* position of each caller of Metrics.Percentiles
    qarg,        \* that call's arguments
    qres,        \* that call's results
    maxSamples,  \* Metrics.maxSamples
    feed,        \* the durations a test loop has yet to record
    addrOk,      \* per backend of the served route: url.Parse accepts its address
    ppc,         \* position of each goroutine running Proxy.ServeHTTP
    preq,        \* each request's r.Host
    pback,       \* each request's backend: an index into Backends, 0 before the choice
    psent,       \* the status each request's client has been sent, 0 for none
    precs,       \* history: the RecordRequest calls each request has made
    ppicks,      \* history: the GetHealthyBackend calls each request has made
    pout,        \* history: how each request's forwarding went: "none" before it,
                 \* then "answered", "failed" or "aborted"
    pcount       \* history: requests taken so far

\* the watcher's own state and the orchestrator it watches; routes is shared
\* with the route table's callers
watcherVars == <<cancelled, pc, stack, base, fireTodo, agentHosts, jobs, relevant,
                 tasks, pending, debounce, reader, line, att, cyc, events, tagFilter,
                 skipped, orch>>

rtVars == <<rtWriter, rtReaders, upc, uarg, mpc, mreq, mhost, mres, mseen>>

rrVars == <<next, backends, gpc, gstart, gres, served, calls>>

mVars == <<requests, latencySamples, sortedCache, hist, qpc, qarg, qres, maxSamples, feed>>

pVars == <<addrOk, ppc, preq, pback, psent, precs, ppicks, pout, pcount>>

vars == <<watcherVars, routes, orch, rtVars, rrVars, mVars, pVars>>

------------------------------------------------------------------------------
(* Bounds of the model *)

\* Nested sync/syncJob activations the goroutine stack can hold; stands for Go's
\* (much larger) goroutine stack limit, at which the runtime aborts the process
\* (pc = "overflow").
MaxDepth == 3

\* The fetch and update counters of the history saturate here.
MaxCount == 2

\* The per-window event counter saturates here.
MaxEvents == 2

\* Width in bits of Route.next and of int; stands for Go's 64.
CursorBits == 4

\* The longest Backends list of a route.
MaxBackends == 3

\* GetHealthyBackend calls on the one route.
MaxCalls == 6

------------------------------------------------------------------------------
(* Strings *)

EmptyStr == <<>>

EmptyMap == <<>>

HasPrefix(s, p) == Len(s) >= Len(p) /\ SubSeq(s, 1, Len(p)) = p

HasSuffix(s, p) == Len(s) >= Len(p) /\ SubSeq(s, Len(s) - Len(p) + 1, Len(s)) = p

Count(s, c) == Cardinality({i \in 1..Len(s) : s[i] = c})

\* strings.LastIndex for a one-character needle, 1-based; 0 when absent
LastIndex(s, c) ==
    IF \E i \in 1..Len(s) : s[i] = c
    THEN CHOOSE i \in 1..Len(s) : s[i] = c /\ \A k \in (i+1)..Len(s) : s[k] # c
    ELSE 0

\* strings.Index for a one-character needle, 1-based; 0 when absent
Index(s, c) ==
    IF \E i \in 1..Len(s) : s[i] = c
    THEN CHOOSE i \in 1..Len(s) : s[i] = c /\ \A k \in 1..(i-1) : s[k] # c
    ELSE 0

MapGet(m, k, zero) == IF k \in DOMAIN m THEN m[k] ELSE zero

MapSet(m, k, v) == [x \in (DOMAIN m) \cup {k} |-> IF x = k THEN v ELSE m[x]]

------------------------------------------------------------------------------
(* The orchestrator's data, as the watcher decodes it *)

JobNames == {"j1", "j2"}

\* Tag keys: "easylb-urlprefix", "easylb-port" and the key of the tag filter
KeyUrlPrefix == <<"U">>

KeyPort == <<"P">>

KeyLb == <<"l", "b">>

PatExact == <<"a", ".", "x">>

PatWild == <<"*", ".", "x">>

PortWeb == <<"w">>

PortAdm == <<"m">>

\* no -tag flag, or -tag lb:e
TagFilters == {EmptyStr, <<"l", "b", ":", "e">>}

Agent1 == [ID |-> "a1", Endpoint |-> "http://h1:7000"]

Agent2NoHost == [ID |-> "a2", Endpoint |-> ""]

\* the agent a1 after it has moved to another host
Agent1Moved == [ID |-> "a1", Endpoint |-> "http://h2:7000"]

\* a job that passes the filter, has a URL prefix and names its port
Job1 == [ID |-> "1", Name |-> "j1",
         Tags |-> (KeyUrlPrefix :> PatExact) @@ (KeyPort :> PortWeb) @@ (KeyLb :> <<"e">>)]

\* a second job on j1's pattern that passes the filter and names no port
Job2Shared == [ID |-> "2", Name |-> "j2",
               Tags |-> (KeyUrlPrefix :> PatExact) @@ (KeyLb :> <<"e">>)]

\* the second job with a URL prefix but another value of the filter tag
Job2Filtered == [ID |-> "2", Name |-> "j2",
                 Tags |-> (KeyUrlPrefix :> PatWild) @@ (KeyLb :> <<"f">>)]

\* the second job passing the filter but without a URL prefix
Job2NoPrefix == [ID |-> "2", Name |-> "j2", Tags |-> (KeyLb :> <<"e">>)]

AgentsResponses == {<<Agent1>>, <<Agent2NoHost>>}

JobsResponses == {<<Job1>>, <<Job1, Job2Shared>>, <<Job1, Job2Filtered>>, <<Job2NoPrefix>>}

JobPort(j) == IF j = "j1" THEN 8001 ELSE 8002

TaskOf(j, id, state, ports) == [ID |-> id, JobName |-> j, State |-> state, Ports |-> ports]

\* two answers of /v1/jobs/{name}/status: a running task with two ports and a
\* stopped one on a1; or a running task without ports on a1 and a running task
\* on a2, an agent whose host name is never reported. No two tasks share a port.
StatusResponses(j) ==
    { [Agents |-> <<Agent1>>,
       TasksByAgent |->
           ("a1" :> <<TaskOf(j, "t1", "running",
                             (PortWeb :> JobPort(j)) @@ (PortAdm :> JobPort(j) + 1000)),
                      TaskOf(j, "t2", "stopped", PortWeb :> JobPort(j) + 10)>>)],
      [Agents |-> <<>>,
       TasksByAgent |->
           ("a1" :> <<TaskOf(j, "t3", "running", EmptyMap)>>)
           @@ ("a2" :> <<TaskOf(j, "t4", "running", PortWeb :> JobPort(j) + 20)>>)] }

\* Lines of the event stream: a "data:" line carries JSON, other lines do not
DataLine(j) == [data |-> TRUE, json |-> [valid |-> TRUE, job |-> j]]

Lines == {DataLine("j1"), DataLine("j2"), DataLine(""),
          [data |-> FALSE, json |-> [valid |-> TRUE, job |-> "j1"]]}

NoLine == [data |-> FALSE, json |-> [valid |-> FALSE, job |-> ""]]

\* the orchestrator when its state is left open: every fetch may get any answer
NoOrch == [agents |-> <<>>, jobs |-> <<>>, status |-> EmptyMap, queue |-> <<>>, left |-> 0]

------------------------------------------------------------------------------
(* Pure helpers of the watcher *)

\* url.Parse(endpoint).Hostname(), "" when the endpoint has no host
extractHost(endpoint) ==
    CASE endpoint = "http://h1:7000" -> "h1"
      [] endpoint = "http://h2:7000" -> "h2"
      [] OTHER -> ""

\* splits "key:value" at the first colon
parseTagFilter(filter) ==
    LET i == Index(filter, ":")
    IN IF i = 0 THEN <<filter, EmptyStr>>
       ELSE <<SubSeq(filter, 1, i - 1), SubSeq(filter, i + 1, Len(filter))>>

jobMatchesFilter(filter, job) ==
    IF filter = EmptyStr THEN TRUE
    ELSE LET kv == parseTagFilter(filter)
         IN MapGet(job.Tags, kv[1], EmptyStr) = kv[2]

jobHasURLPrefix(job) == MapGet(job.Tags, KeyUrlPrefix, EmptyStr) # EmptyStr

\* the ports taskPort can return: the named port, else whichever port the map
\* iteration yields first, else 0
taskPort(task, portName) ==
    IF portName # EmptyStr /\ portName \in DOMAIN task.Ports
    THEN {task.Ports[portName]}
    ELSE IF DOMAIN task.Ports = {} THEN {0}
    ELSE {task.Ports[k] : k \in DOMAIN task.Ports}

\* the job name an SSE data line carries, "" when it carries none
parseJobFromData(l) == IF l.json.valid THEN l.json.job ELSE ""

\* the loop `for _, agent := range agents` that fills agentHosts
RECURSIVE cacheAgents(_, _, _)
cacheAgents(hosts, agents, i) ==
    IF i > Len(agents) THEN hosts
    ELSE LET h == extractHost(agents[i].Endpoint)
         IN cacheAgents(IF h # "" THEN MapSet(hosts, agents[i].ID, h) ELSE hosts,
                        agents, i + 1)

\* the loop `for _, job := range jobs` that fills w.jobs
RECURSIVE cacheJobs(_, _, _)
cacheJobs(m, list, i) ==
    IF i > Len(list) THEN m
    ELSE cacheJobs(MapSet(m, list[i].Name, list[i]), list, i + 1)

\* a sync that takes every job with a URL prefix as relevant, whatever its tags
relevantJobsUnfiltered(filter, list) ==
    {list[i].Name : i \in {k \in 1..Len(list) : jobHasURLPrefix(list[k])}}

\* the same loop's w.relevant
relevantJobs(filter, list) ==
    {list[i].Name : i \in {k \in 1..Len(list) :
                              jobMatchesFilter(filter, list[k]) /\ jobHasURLPrefix(list[k])}}

\* a backend that starts out unhealthy
BackendUnhealthy(host, port) == [Address |-> <<host, port>>, Healthy |-> FALSE]

\* lines 275-278: &Backend{Address: host + ":" + port, Healthy: true}
Backend(host, port) == [Address |-> <<host, port>>, Healthy |-> TRUE]

\* routes[pattern] gets the backend appended, or a new Route
addBackend(rs, pattern, b) ==
    IF pattern \in DOMAIN rs
    THEN [rs EXCEPT ![pattern].Backends = Append(@, b)]
    ELSE MapSet(rs, pattern, [Pattern |-> pattern, Backends |-> <<b>>, next |-> 0])

RECURSIVE taskLoopAnyState(_, _, _, _, _, _)
\* a loop that does not look at the state of the task
taskLoopAnyState(rs, pattern, host, portName, ts, i) ==
    IF i > Len(ts) THEN {rs}
    ELSE UNION { IF port = 0
                 THEN taskLoopAnyState(rs, pattern, host, portName, ts, i + 1)
                 ELSE taskLoopAnyState(addBackend(rs, pattern, Backend(host, port)),
                                       pattern, host, portName, ts, i + 1)
                 : port \in taskPort(ts[i], portName) }

\* `for _, task := range tasks`: the tables the loop can leave
RECURSIVE taskLoop(_, _, _, _, _, _)
taskLoop(rs, pattern, host, portName, ts, i) ==
    IF i > Len(ts) THEN {rs}
    ELSE IF ts[i].State # "running" THEN taskLoop(rs, pattern, host, portName, ts, i + 1)
    ELSE UNION { IF port = 0
                 THEN taskLoop(rs, pattern, host, portName, ts, i + 1)
                 ELSE taskLoop(addBackend(rs, pattern, Backend(host, port)),
                               pattern, host, portName, ts, i + 1)
                 : port \in taskPort(ts[i], portName) }

\* `for agentID, tasks := range w.tasks[jobName]`, in any iteration order
RECURSIVE agentLoop(_, _, _, _, _, _)
agentLoop(rs, pattern, portName, hosts, byAgent, todo) ==
    IF todo = {} THEN {rs}
    ELSE UNION { LET host == MapGet(hosts, a, "")
                     after == IF host = "" THEN {rs}
                              ELSE taskLoop(rs, pattern, host, portName, byAgent[a], 1)
                 IN UNION { agentLoop(r, pattern, portName, hosts, byAgent, todo \ {a})
                            : r \in after }
                 : a \in todo }

\* `for jobName := range w.relevant`, in any iteration order
RECURSIVE jobLoop(_, _, _, _, _)
jobLoop(rs, hosts, js, ts, todo) ==
    IF todo = {} THEN {rs}
    ELSE UNION { LET pattern == IF j \in DOMAIN js
                                THEN MapGet(js[j].Tags, KeyUrlPrefix, EmptyStr)
                                ELSE EmptyStr
                     byAgent == MapGet(ts, j, EmptyMap)
                     after == IF j \notin DOMAIN js \/ pattern = EmptyStr THEN {rs}
                              ELSE agentLoop(rs, pattern,
                                             MapGet(js[j].Tags, KeyPort, EmptyStr),
                                             hosts, byAgent, DOMAIN byAgent)
                 IN UNION { jobLoop(r, hosts, js, ts, todo \ {j}) : r \in after }
                 : j \in todo }

\* the route maps buildRoutes can hand to RouteTable.Update
buildRoutes(hosts, js, rel, ts) == jobLoop(EmptyMap, hosts, js, ts, rel)

\* a handler that never takes the full-sync branch
needFullSyncNever(p, js) == FALSE

\* lines 143-149: some pending job is not in w.jobs
needFullSync(p, js) == \E j \in p : j \notin DOMAIN js

\* a handler that discards no event
skipEventNever(job, rel, js) == FALSE

\* lines 132-136: the event names a known job that is not relevant
skipEvent(job, rel, js) == job \notin rel /\ job \in DOMAIN js

------------------------------------------------------------------------------
(* History kept for the properties; no action's guard reads it *)

Inc(n) == IF n < MaxCount THEN n + 1 ELSE n

Min(a, b) == IF a < b THEN a ELSE b

\* kind: "seed", "full" (debounce, full sync) or "incr" (debounce, one job);
\* dirty: how many of the active calls, outermost first, have seen a fetch fail;
\* recovered: a sync ran from its first fetch to its buildRoutes without a failure;
\* before: the route table when the attempt began; updates: RouteTable.Update
\* calls so far, counted while no fetch has failed
NoAttempt == [kind |-> "none", job |-> "", done |-> FALSE, failed |-> FALSE, dirty |-> 0,
              recovered |-> FALSE, before |-> EmptyMap, updates |-> 0]

NewAttempt(kind, job) == [NoAttempt EXCEPT !.kind = kind, !.job = job, !.before = routes]

ZeroCounts == [j \in JobNames |-> 0]

\* allKnown: every pending job was in w.jobs when the timer fired; topFull and
\* topIncr: the calls the debounce handler itself made; nAgents, nJobs, nStatus:
\* fetches of the cycle, counted while no fetch has failed
NoCycle == [active |-> FALSE, allKnown |-> FALSE, topFull |-> 0, topIncr |-> {},
            failed |-> FALSE, nAgents |-> 0, nJobs |-> 0, nStatus |-> ZeroCounts]

Counted(c, kind, job) ==
    IF ~c.active \/ c.failed THEN c
    ELSE CASE kind = "agents" -> [c EXCEPT !.nAgents = Inc(@)]
           [] kind = "jobs" -> [c EXCEPT !.nJobs = Inc(@)]
           [] OTHER -> [c EXCEPT !.nStatus[job] = Inc(@)]

CycleFailed(c) ==
    IF ~c.active THEN c
    ELSE [c EXCEPT !.failed = TRUE, !.nAgents = 0, !.nJobs = 0, !.nStatus = ZeroCounts]

AttemptFailed(a, depth) == [a EXCEPT !.failed = TRUE, !.dirty = depth, !.updates = 0]

Updated(a) == IF a.failed THEN a ELSE [a EXCEPT !.updates = Inc(@)]

------------------------------------------------------------------------------
(* Calls and returns of sync and syncJob *)

SyncFrame == [fn |-> "sync", job |-> "", todo |-> {}, agents |-> <<>>]

JobFrame(j) == [fn |-> "syncJob", job |-> j, todo |-> {}, agents |-> <<>>]

Top == stack[Len(stack)]

Pop(stk) == SubSeq(stk, 1, Len(stk) - 1)

SetTop(stk, f) == [stk EXCEPT ![Len(stk)] = f]

\* The calls left once the innermost call has returned. A syncJob that called
\* sync (lines 208, 214, 223) returns as soon as that sync has returned.
Unwind(stk) ==
    LET r == Pop(stk)
    IN IF r # <<>> /\ stk[Len(stk)].fn = "sync" /\ r[Len(r)].fn = "syncJob"
       THEN Pop(r) ELSE r

\* where control continues when the calls in rest are left
RetPc(rest) ==
    IF rest # <<>> THEN "sync_loop"
    ELSE CASE base = "seed" -> "stream_init"
           [] base = "fire_full" -> "fire_done"
           [] OTHER -> "fire_loop"

\* the innermost call returns
Returns(a) ==
    /\ stack' = Unwind(stack)
    /\ pc' = RetPc(Unwind(stack))
    /\ att' = [a EXCEPT !.done = (Unwind(stack) = <<>>),
                        !.dirty = Min(@, Len(Unwind(stack)))]

\* a call from inside sync or syncJob; the goroutine stack is finite
Calls(stk, frame, to) ==
    IF Len(stk) >= MaxDepth
    THEN pc' = "overflow" /\ stack' = stk
    ELSE pc' = to /\ stack' = Append(stk, frame)

------------------------------------------------------------------------------
(* The environment *)

\* cancel() in main, on a signal
Cancel ==
    /\ ~cancelled
    /\ pc \notin {"stopped", "overflow"}
    /\ cancelled' = TRUE
    /\ UNCHANGED <<pc, stack, base, fireTodo, agentHosts, jobs, relevant, tasks, routes,
                   pending, debounce, reader, line, att, cyc, events, tagFilter, skipped, orch, rtVars, rrVars, mVars, pVars>>

\* the 500ms debounce timer expires
TimerFire ==
    /\ debounce = "armed"
    /\ debounce' = "fired"
    /\ UNCHANGED <<cancelled, pc, stack, base, fireTodo, agentHosts, jobs, relevant, tasks,
                   routes, pending, reader, line, att, cyc, events, tagFilter, skipped, orch, rtVars, rrVars, mVars, pVars>>

\* scanner.Scan() yields a line: the reader goroutine blocks on lineCh <- line
StreamLine ==
    /\ reader = "scan"
    /\ pc # "overflow"
    /\ \E l \in Lines : line' = l
    /\ reader' = "send"
    /\ UNCHANGED <<cancelled, pc, stack, base, fireTodo, agentHosts, jobs, relevant, tasks,
                   routes, pending, debounce, att, cyc, events, tagFilter, skipped, orch, rtVars, rrVars, mVars, pVars>>

\* scanner.Scan() returns false (EOF or read error): close(lineCh)
StreamEnd ==
    /\ reader = "scan"
    /\ pc # "overflow"
    /\ reader' = "closed"
    /\ UNCHANGED <<cancelled, pc, stack, base, fireTodo, agentHosts, jobs, relevant, tasks,
                   routes, pending, debounce, line, att, cyc, events, tagFilter, skipped, orch, rtVars, rrVars, mVars, pVars>>

------------------------------------------------------------------------------
(* Watcher.Run *)

\* line 67: if ctx.Err() != nil { return }
RunCheck ==
    /\ pc = "run_check"
    /\ pc' = IF cancelled THEN "stopped" ELSE "connect"
    /\ UNCHANGED <<cancelled, stack, base, fireTodo, agentHosts, jobs, relevant, tasks,
                   routes, pending, debounce, reader, line, att, cyc, events, tagFilter, skipped, orch, rtVars, rrVars, mVars, pVars>>

\* a watchSSE without line 101: it starts streaming without the seeding sync
ConnectNoSeed ==
    /\ pc = "connect"
    /\ \E ok \in BOOLEAN :
         /\ cancelled => ~ok
         /\ pc' = IF ok THEN "stream_init" ELSE "run_after"
    /\ reader' = "none"
    /\ UNCHANGED <<cancelled, base, stack, att, fireTodo, agentHosts, jobs, relevant, tasks,
                   routes, pending, debounce, line, cyc, events, tagFilter, skipped, orch, rtVars, rrVars, mVars, pVars>>

\* watchSSE lines 86-101: the GET of /v1/events; with ctx already cancelled it
\* fails; a success is followed by the seeding w.sync()
Connect ==
    /\ pc = "connect"
    /\ \E ok \in BOOLEAN :
         /\ cancelled => ~ok
         /\ IF ok
            THEN /\ base' = "seed"
                 /\ stack' = <<SyncFrame>>
                 /\ pc' = "sync_agents"
                 /\ att' = NewAttempt("seed", "")
            ELSE /\ pc' = "run_after"
                 /\ UNCHANGED <<base, stack, att>>
    /\ reader' = "none"
    /\ UNCHANGED <<cancelled, fireTodo, agentHosts, jobs, relevant, tasks, routes,
                   pending, debounce, line, cyc, events, tagFilter, skipped, orch, rtVars, rrVars, mVars, pVars>>

\* lines 71-74: watchSSE has returned
RunAfter ==
    /\ pc = "run_after"
    /\ pc' = IF cancelled THEN "stopped" ELSE "retry_wait"
    /\ UNCHANGED <<cancelled, stack, base, fireTodo, agentHosts, jobs, relevant, tasks,
                   routes, pending, debounce, reader, line, att, cyc, events, tagFilter, skipped, orch, rtVars, rrVars, mVars, pVars>>

\* lines 75-79: select between time.After(w.interval) and ctx.Done()
RetryWait ==
    /\ pc = "retry_wait"
    /\ \/ pc' = "run_check"
       \/ cancelled /\ pc' = "stopped"
    /\ UNCHANGED <<cancelled, stack, base, fireTodo, agentHosts, jobs, relevant, tasks,
                   routes, pending, debounce, reader, line, att, cyc, events, tagFilter, skipped, orch, rtVars, rrVars, mVars, pVars>>

------------------------------------------------------------------------------
(* Watcher.sync and Watcher.syncJob *)

\* lines 164-168: the agent list, one of the answers the orchestrator can give
fetchAgentsFrom(responses) ==
    /\ pc = "sync_agents"
    /\ \/ /\ \E r \in responses :
               stack' = SetTop(stack, [Top EXCEPT !.agents = r])
          /\ pc' = "sync_jobs"
          /\ att' = att
          /\ cyc' = Counted(cyc, "agents", "")
       \/ /\ Returns(AttemptFailed(att, Len(stack)))
          /\ cyc' = CycleFailed(cyc)
    /\ UNCHANGED <<cancelled, base, fireTodo, agentHosts, jobs, relevant, tasks, routes,
                   pending, debounce, reader, line, events, tagFilter, skipped, orch, rtVars, rrVars, mVars, pVars>>

FetchAgents == fetchAgentsFrom(AgentsResponses)

\* lines 170-195: the job list; on success the whole cache is replaced
FetchJobs ==
    /\ pc = "sync_jobs"
    /\ \/ /\ \E r \in JobsResponses :
               /\ agentHosts' = cacheAgents(EmptyMap, Top.agents, 1)
               /\ jobs' = cacheJobs(EmptyMap, r, 1)
               /\ relevant' = relevantJobs(tagFilter, r)
               /\ tasks' = EmptyMap
               /\ stack' = SetTop(stack, [Top EXCEPT !.todo = relevantJobs(tagFilter, r),
                                                     !.agents = <<>>])
          /\ pc' = "sync_loop"
          /\ att' = att
          /\ cyc' = Counted(cyc, "jobs", "")
       \/ /\ Returns(AttemptFailed(att, Len(stack)))
          /\ cyc' = CycleFailed(cyc)
          /\ UNCHANGED <<agentHosts, jobs, relevant, tasks>>
    /\ UNCHANGED <<cancelled, base, fireTodo, routes, pending, debounce, reader, line,
                   events, tagFilter, skipped, orch, rtVars, rrVars, mVars, pVars>>

\* lines 196-200: the loop over the relevant jobs, then buildRoutes
SyncLoop ==
    /\ pc = "sync_loop"
    /\ IF Top.todo # {}
       THEN /\ \E j \in Top.todo :
                 Calls(SetTop(stack, [Top EXCEPT !.todo = @ \ {j}]), JobFrame(j),
                       "job_status")
            /\ UNCHANGED <<routes, att>>
       ELSE /\ \E r \in buildRoutes(agentHosts, jobs, relevant, tasks) : routes' = r
            /\ Returns([Updated(att) EXCEPT !.recovered = @ \/ (Len(stack) > att.dirty)])
    /\ UNCHANGED <<cancelled, base, fireTodo, agentHosts, jobs, relevant, tasks,
                   pending, debounce, reader, line, cyc, events, tagFilter, skipped, orch, rtVars, rrVars, mVars, pVars>>

\* a syncJob that forgets the cached tasks of the other jobs
syncJobWithClearing(responses) ==
    /\ pc = "job_status"
    /\ \/ /\ \E r \in responses :
               LET hosts == cacheAgents(agentHosts, r.Agents, 1)
                   ts == MapSet(EmptyMap, Top.job, r.TasksByAgent)
               IN /\ agentHosts' = hosts
                  /\ tasks' = ts
                  /\ \E t \in buildRoutes(hosts, jobs, relevant, ts) : routes' = t
          /\ Returns(Updated(att))
          /\ cyc' = Counted(cyc, "status", Top.job)
       \/ /\ Calls(stack, SyncFrame, "sync_agents")
          /\ att' = AttemptFailed(att, Len(stack))
          /\ cyc' = CycleFailed(cyc)
          /\ UNCHANGED <<agentHosts, tasks, routes>>
    /\ UNCHANGED <<cancelled, base, fireTodo, jobs, relevant, pending, debounce, reader,
                   line, events, tagFilter, skipped, orch, rtVars, rrVars, mVars, pVars>>

\* lines 205-240: the status fetch of one job, answered with one of the
\* responses; a failure calls sync, a success replaces the job's tasks and
\* rebuilds the routes
syncJobWith(responses) ==
    /\ pc = "job_status"
    /\ \/ /\ \E r \in responses :
               LET hosts == cacheAgents(agentHosts, r.Agents, 1)
                   ts == MapSet(tasks, Top.job, r.TasksByAgent)
               IN /\ agentHosts' = hosts
                  /\ tasks' = ts
                  /\ \E t \in buildRoutes(hosts, jobs, relevant, ts) : routes' = t
          /\ Returns(Updated(att))
          /\ cyc' = Counted(cyc, "status", Top.job)
       \/ /\ Calls(stack, SyncFrame, "sync_agents")
          /\ att' = AttemptFailed(att, Len(stack))
          /\ cyc' = CycleFailed(cyc)
          /\ UNCHANGED <<agentHosts, tasks, routes>>
    /\ UNCHANGED <<cancelled, base, fireTodo, jobs, relevant, pending, debounce, reader,
                   line, events, tagFilter, skipped, orch, rtVars, rrVars, mVars, pVars>>

\* a syncJob that, when the fetch fails, stores an empty task map for the job
\* and returns without calling sync
SyncJobNoFallback ==
    /\ pc = "job_status"
    /\ \/ /\ \E r \in StatusResponses(Top.job) :
               LET hosts == cacheAgents(agentHosts, r.Agents, 1)
                   ts == MapSet(tasks, Top.job, r.TasksByAgent)
               IN /\ agentHosts' = hosts
                  /\ tasks' = ts
                  /\ \E t \in buildRoutes(hosts, jobs, relevant, ts) : routes' = t
          /\ Returns(Updated(att))
          /\ cyc' = Counted(cyc, "status", Top.job)
       \/ /\ Returns(AttemptFailed(att, Len(stack)))
          /\ tasks' = MapSet(tasks, Top.job, EmptyMap)
          /\ cyc' = CycleFailed(cyc)
          /\ UNCHANGED <<agentHosts, routes>>
    /\ UNCHANGED <<cancelled, base, fireTodo, jobs, relevant, pending, debounce, reader,
                   line, events, tagFilter, skipped, orch, rtVars, rrVars, mVars, pVars>>

\* syncJob against an orchestrator whose answers are left open
SyncJob == syncJobWith(StatusResponses(Top.job))

------------------------------------------------------------------------------
(* Watcher.watchSSE, after the connection *)

\* watchSSE returns: the deferred resp.Body.Close() ends a reader that is
\* scanning; a reader blocked on lineCh <- line stays blocked
LeaveStream ==
    /\ pc' = "run_after"
    /\ reader' = IF reader = "send" THEN "stuck" ELSE "none"
    /\ line' = NoLine
    /\ pending' = {}
    /\ debounce' = "stopped"
    /\ events' = 0
    /\ skipped' = FALSE

\* lines 102-117: the reader goroutine starts, the timer is stopped, pending is empty
StreamInit ==
    /\ pc = "stream_init"
    /\ pc' = "select"
    /\ reader' = "scan"
    /\ debounce' = "stopped"
    /\ pending' = {}
    /\ att' = NoAttempt
    /\ UNCHANGED <<cancelled, stack, base, fireTodo, agentHosts, jobs, relevant, tasks,
                   routes, line, cyc, events, tagFilter, skipped, orch, rtVars, rrVars, mVars, pVars>>

\* lines 121-122: case <-ctx.Done()
SelectDone ==
    /\ pc = "select"
    /\ cancelled
    /\ LeaveStream
    /\ UNCHANGED <<cancelled, stack, base, fireTodo, agentHosts, jobs, relevant, tasks,
                   routes, att, cyc, tagFilter, orch, rtVars, rrVars, mVars, pVars>>

\* lines 124-126: lineCh is closed
SelectClosed ==
    /\ pc = "select"
    /\ reader = "closed"
    /\ LeaveStream
    /\ UNCHANGED <<cancelled, stack, base, fireTodo, agentHosts, jobs, relevant, tasks,
                   routes, att, cyc, tagFilter, orch, rtVars, rrVars, mVars, pVars>>

\* a loop that keeps only the job of the latest event
SelectLineLatestOnly ==
    /\ pc = "select"
    /\ reader = "send"
    /\ reader' = "scan"
    /\ line' = NoLine
    /\ LET job == parseJobFromData(line)
       IN IF line.data /\ job # "" /\ ~skipEvent(job, relevant, jobs)
          THEN /\ debounce' = IF pending = {} THEN "armed" ELSE debounce
               /\ pending' = {job}
               /\ events' = IF events < MaxEvents THEN events + 1 ELSE events
          ELSE UNCHANGED <<debounce, pending, events>>
    /\ skipped' = (line.data /\ parseJobFromData(line) # ""
                     /\ skipEvent(parseJobFromData(line), relevant, jobs))
    /\ UNCHANGED <<cancelled, pc, stack, base, fireTodo, agentHosts, jobs, relevant, tasks,
                   routes, att, cyc, tagFilter, orch, rtVars, rrVars, mVars, pVars>>

\* lines 123, 127-141: a line is received
SelectLine ==
    /\ pc = "select"
    /\ reader = "send"
    /\ reader' = "scan"
    /\ line' = NoLine
    /\ LET job == parseJobFromData(line)
       IN IF line.data /\ job # "" /\ ~skipEvent(job, relevant, jobs)
          THEN /\ debounce' = IF pending = {} THEN "armed" ELSE debounce
               /\ pending' = pending \cup {job}
               /\ events' = IF events < MaxEvents THEN events + 1 ELSE events
          ELSE UNCHANGED <<debounce, pending, events>>
    /\ skipped' = (line.data /\ parseJobFromData(line) # ""
                     /\ skipEvent(parseJobFromData(line), relevant, jobs))
    /\ UNCHANGED <<cancelled, pc, stack, base, fireTodo, agentHosts, jobs, relevant, tasks,
                   routes, att, cyc, tagFilter, orch, rtVars, rrVars, mVars, pVars>>

\* lines 142-152: the debounce timer has fired
SelectFire ==
    /\ pc = "select"
    /\ debounce = "fired"
    /\ debounce' = "stopped"
    /\ IF needFullSync(pending, jobs)
       THEN /\ base' = "fire_full"
            /\ stack' = <<SyncFrame>>
            /\ pc' = "sync_agents"
            /\ att' = NewAttempt("full", "")
            /\ UNCHANGED fireTodo
       ELSE /\ fireTodo' = pending
            /\ pc' = "fire_loop"
            /\ att' = NoAttempt
            /\ UNCHANGED <<base, stack>>
    /\ cyc' = [NoCycle EXCEPT !.active = TRUE,
                              !.allKnown = (pending \subseteq DOMAIN jobs),
                              !.topFull = IF needFullSync(pending, jobs) THEN 1 ELSE 0]
    /\ skipped' = FALSE
    /\ UNCHANGED <<cancelled, agentHosts, jobs, relevant, tasks, routes, pending, reader,
                   line, events, tagFilter, orch, rtVars, rrVars, mVars, pVars>>

\* a handler that syncs once per received event instead of once per pending job
FireLoopPerEvent ==
    /\ pc = "fire_loop"
    /\ IF fireTodo # {}
       THEN \E j \in fireTodo :
              /\ fireTodo' = IF cyc.nStatus[j] + 1 < events THEN fireTodo ELSE fireTodo \ {j}
              /\ base' = "fire_incr"
              /\ stack' = <<JobFrame(j)>>
              /\ pc' = "job_status"
              /\ att' = NewAttempt("incr", j)
              /\ cyc' = [cyc EXCEPT !.topIncr = @ \cup {j}]
       ELSE /\ pc' = "fire_done"
            /\ UNCHANGED <<fireTodo, base, stack, att, cyc>>
    /\ UNCHANGED <<cancelled, agentHosts, jobs, relevant, tasks, routes, pending, debounce,
                   reader, line, events, tagFilter, skipped, orch, rtVars, rrVars, mVars, pVars>>

\* lines 153-155: for job := range pending { w.syncJob(job) }
FireLoop ==
    /\ pc = "fire_loop"
    /\ IF fireTodo # {}
       THEN \E j \in fireTodo :
              /\ fireTodo' = fireTodo \ {j}
              /\ base' = "fire_incr"
              /\ stack' = <<JobFrame(j)>>
              /\ pc' = "job_status"
              /\ att' = NewAttempt("incr", j)
              /\ cyc' = [cyc EXCEPT !.topIncr = @ \cup {j}]
       ELSE /\ pc' = "fire_done"
            /\ UNCHANGED <<fireTodo, base, stack, att, cyc>>
    /\ UNCHANGED <<cancelled, agentHosts, jobs, relevant, tasks, routes, pending, debounce,
                   reader, line, events, tagFilter, skipped, orch, rtVars, rrVars, mVars, pVars>>

\* a handler that returns to the select without clearing pending
FireDoneKeepsPending ==
    /\ pc = "fire_done"
    /\ pc' = "select"
    /\ att' = NoAttempt
    /\ cyc' = NoCycle
    /\ events' = 0
    /\ UNCHANGED <<cancelled, stack, base, fireTodo, agentHosts, jobs, relevant, tasks,
                   routes, pending, debounce, reader, line, tagFilter, skipped, orch, rtVars, rrVars, mVars, pVars>>

\* line 157: pending = make(map[string]struct{})
FireDone ==
    /\ pc = "fire_done"
    /\ pc' = "select"
    /\ pending' = {}
    /\ att' = NoAttempt
    /\ cyc' = NoCycle
    /\ events' = 0
    /\ UNCHANGED <<cancelled, stack, base, fireTodo, agentHosts, jobs, relevant, tasks,
                   routes, debounce, reader, line, tagFilter, skipped, orch, rtVars, rrVars, mVars, pVars>>

------------------------------------------------------------------------------
(* An orchestrator with a state of its own: fetches answer from it, and it
   announces every change on the event stream *)

\* changes the orchestrator makes in one behaviour
MaxChanges == 2

\* the job lists of the orchestrator: j1 alone, or with a second job that is
\* relevant or not
OrchJobs == {<<Job1>>, <<Job1, Job2Shared>>, <<Job1, Job2Filtered>>}

NamesOf(list) == {list[i].Name : i \in 1..Len(list)}

OrchStates ==
    {[agents |-> a, jobs |-> l, status |-> st, queue |-> <<>>, left |-> MaxChanges] :
        a \in AgentsResponses, l \in OrchJobs,
        st \in {f \in [JobNames -> UNION {StatusResponses(j) : j \in JobNames}] :
                    \A j \in JobNames : f[j] \in StatusResponses(j)}}

\* the stream is open: the orchestrator has accepted the GET of /v1/events
Subscribed == pc \notin {"run_check", "connect"}

\* a task of job j starts, stops or moves: the job's status changes and an
\* event names the job
OrchTaskChange ==
    /\ Subscribed
    /\ orch.left > 0
    /\ \E j \in NamesOf(orch.jobs) :
           \E r \in StatusResponses(j) \ {orch.status[j]} :
               orch' = [orch EXCEPT !.status[j] = r, !.queue = Append(@, j), !.left = @ - 1]
    /\ UNCHANGED <<cancelled, pc, stack, base, fireTodo, agentHosts, jobs, relevant, tasks,
                   routes, pending, debounce, reader, line, att, cyc, events, tagFilter,
                   skipped, rtVars, rrVars, mVars, pVars>>

\* the job j2 is created, or its tags change: an event names it
OrchJobChange ==
    /\ Subscribed
    /\ orch.left > 0
    /\ \E l \in OrchJobs \ {orch.jobs} :
           /\ NamesOf(orch.jobs) \subseteq NamesOf(l)
           /\ orch' = [orch EXCEPT !.jobs = l, !.queue = Append(@, "j2"), !.left = @ - 1]
    /\ UNCHANGED <<cancelled, pc, stack, base, fireTodo, agentHosts, jobs, relevant, tasks,
                   routes, pending, debounce, reader, line, att, cyc, events, tagFilter,
                   skipped, rtVars, rrVars, mVars, pVars>>

\* scanner.Scan() yields the next announced event
OrchStreamLine ==
    /\ reader = "scan"
    /\ orch.queue # <<>>
    /\ line' = DataLine(Head(orch.queue))
    /\ orch' = [orch EXCEPT !.queue = Tail(@)]
    /\ reader' = "send"
    /\ UNCHANGED <<cancelled, pc, stack, base, fireTodo, agentHosts, jobs, relevant, tasks,
                   routes, pending, debounce, att, cyc, events, tagFilter, skipped,
                   rtVars, rrVars, mVars, pVars>>

\* the GET of /v1/events succeeds
OrchConnect == Connect /\ pc' = "sync_agents"

\* /v1/agents answers with the orchestrator's agents
OrchFetchAgents ==
    /\ FetchAgents
    /\ pc' = "sync_jobs"
    /\ stack'[Len(stack')].agents = orch.agents

\* /v1/jobs answers with the orchestrator's jobs
OrchFetchJobs ==
    /\ FetchJobs
    /\ pc' = "sync_loop"
    /\ jobs' = cacheJobs(EmptyMap, orch.jobs, 1)

\* /v1/jobs/{name}/status answers with the job's status
OrchSyncJob ==
    /\ SyncJob
    /\ pc' \notin {"sync_agents", "overflow"}
    /\ tasks' = MapSet(tasks, Top.job, orch.status[Top.job].TasksByAgent)
    /\ agentHosts' = cacheAgents(agentHosts, orch.status[Top.job].Agents, 1)

------------------------------------------------------------------------------
(* RouteTable: Update and Match under the RWMutex *)

Readers == {1, 2}

NilRoute == [Pattern |-> EmptyStr, Backends |-> <<>>, next |-> 0]

\* hosts that requests carry: "a.x", "b.x", "a.x:8", "x", "b.x:8", "b.a.x", ".x"
MatchHosts ==
    {PatExact, <<"b", ".", "x">>, <<"a", ".", "x", ":", "8">>, <<"x">>,
     <<"b", ".", "x", ":", "8">>, <<"b", ".", "a", ".", "x">>, <<".", "x">>}

\* patterns of the tables Match is tried on: "a.x", "*.x", "*.a.x", "x"
MatchPatterns == {PatExact, PatWild, <<"*", ".", "a", ".", "x">>, <<"x">>}

RouteFor(p) == [Pattern |-> p, Backends |-> <<Backend("h1", JobPort("j1"))>>, next |-> 0]

\* every table over these patterns
Tables == { [p \in S |-> RouteFor(p)] : S \in SUBSET MatchPatterns }

\* the maps the watcher can pass to Update: buildRoutes over the caches that a
\* job list and per-job status answers produce
TaskMaps ==
    LET choice == [JobNames -> {0, 1, 2}]
        answer(j, k) == CHOOSE r \in StatusResponses(j) :
                            (k = 1) = (r.Agents # <<>>)
    IN { [j \in {n \in JobNames : c[n] # 0} |-> answer(j, c[j]).TasksByAgent] : c \in choice }

Generations ==
    UNION { buildRoutes(cacheAgents(EmptyMap, <<Agent1>>, 1), cacheJobs(EmptyMap, jr, 1),
                        relevantJobs(EmptyStr, jr), ts)
            : jr \in {<<Job1>>, <<Job1, Job2Filtered>>}, ts \in TaskMaps }

\* a Match that looks the host up as it came
stripPortNever(host) == host

\* lines 47-50: strip the port
stripPort(host) ==
    LET idx == LastIndex(host, ":")
    IN IF idx # 0 THEN SubSeq(host, 1, idx - 1) ELSE host

\* a matchWildcard that compares the suffix alone
matchWildcardSuffixOnly(pattern, host) ==
    /\ HasPrefix(pattern, <<"*", ".">>)
    /\ HasSuffix(host, SubSeq(pattern, 2, Len(pattern)))

\* lines 86-93
matchWildcard(pattern, host) ==
    /\ HasPrefix(pattern, <<"*", ".">>)
    /\ LET suffix == SubSeq(pattern, 2, Len(pattern))
       IN HasSuffix(host, suffix) /\ Count(host, ".") = Count(suffix, ".")

\* a Match without the exact lookup
exactMatchNever(rs, host) == {}

\* lines 52-55 on the map rs: the route of the exact pattern, if any
exactMatch(rs, host) == IF host \in DOMAIN rs THEN {rs[host]} ELSE {}

\* lines 57-64 on the map rs: the routes the wildcard scan can return
wildcardMatch(rs, host) ==
    LET hits == {p \in DOMAIN rs : matchWildcard(p, host)}
    IN IF hits = {} THEN {NilRoute} ELSE {rs[p] : p \in hits}

\* what Match can return when it runs on the one map rs
matchOn(rs, host) ==
    IF exactMatch(rs, stripPort(host)) # {} THEN exactMatch(rs, stripPort(host))
    ELSE wildcardMatch(rs, stripPort(host))

\* a Lock that does not wait for the readers
canLockIgnoringReaders(writer, readers) == ~writer

\* sync.RWMutex: Lock waits for the writer and all readers, RLock for the writer
canLock(writer, readers) == ~writer /\ readers = {}

canRLock(writer) == ~writer

RTIdle ==
    /\ rtWriter = FALSE
    /\ rtReaders = {}
    /\ upc = "idle"
    /\ uarg = EmptyMap
    /\ mpc = [r \in Readers |-> "idle"]
    /\ mreq = [r \in Readers |-> EmptyStr]
    /\ mhost = [r \in Readers |-> EmptyStr]
    /\ mres = [r \in Readers |-> NilRoute]
    /\ mseen = [r \in Readers |-> {}]

\* Update is called with a freshly built map
UpdateCall ==
    /\ upc = "idle"
    /\ \E g \in Generations : uarg' = g
    /\ upc' = "lock"
    /\ UNCHANGED <<watcherVars, rrVars, mVars, pVars, routes, rtWriter, rtReaders, mpc, mreq, mhost, mres, mseen>>

\* line 37: rt.mu.Lock()
UpdateLock ==
    /\ upc = "lock"
    /\ canLock(rtWriter, rtReaders)
    /\ rtWriter' = TRUE
    /\ upc' = "store"
    /\ UNCHANGED <<watcherVars, rrVars, mVars, pVars, routes, rtReaders, uarg, mpc, mreq, mhost, mres, mseen>>

\* an Update that adds the new routes to the old ones
UpdateStoreMerge ==
    /\ upc = "store"
    /\ routes' = uarg @@ routes
    /\ upc' = "unlock"
    /\ mseen' = [r \in Readers |-> IF r \in rtReaders THEN mseen[r] \cup {uarg @@ routes}
                                    ELSE mseen[r]]
    /\ UNCHANGED <<watcherVars, rrVars, mVars, pVars, rtWriter, rtReaders, uarg, mpc, mreq, mhost, mres>>

\* line 39: rt.routes = routes
UpdateStore ==
    /\ upc = "store"
    /\ routes' = uarg
    /\ upc' = "unlock"
    /\ mseen' = [r \in Readers |-> IF r \in rtReaders THEN mseen[r] \cup {uarg} ELSE mseen[r]]
    /\ UNCHANGED <<watcherVars, rrVars, mVars, pVars, rtWriter, rtReaders, uarg, mpc, mreq, mhost, mres>>

\* line 38: the deferred rt.mu.Unlock()
UpdateUnlock ==
    /\ upc = "unlock"
    /\ rtWriter' = FALSE
    /\ upc' = "idle"
    /\ uarg' = EmptyMap
    /\ UNCHANGED <<watcherVars, rrVars, mVars, pVars, routes, rtReaders, mpc, mreq, mhost, mres, mseen>>

\* line 44: rt.mu.RLock()
MatchRLock(r) ==
    /\ mpc[r] = "idle"
    /\ canRLock(rtWriter)
    /\ \E h \in MatchHosts : /\ mhost' = [mhost EXCEPT ![r] = h]
                              /\ mreq' = [mreq EXCEPT ![r] = h]
    /\ rtReaders' = rtReaders \cup {r}
    /\ mseen' = [mseen EXCEPT ![r] = {routes}]
    /\ mres' = [mres EXCEPT ![r] = NilRoute]
    /\ mpc' = [mpc EXCEPT ![r] = "exact"]
    /\ UNCHANGED <<watcherVars, rrVars, mVars, pVars, routes, rtWriter, upc, uarg>>

\* lines 47-55: strip the port, then the exact lookup in rt.routes
MatchExact(r) ==
    /\ mpc[r] = "exact"
    /\ LET host == stripPort(mhost[r])
       IN /\ mhost' = [mhost EXCEPT ![r] = host]
          /\ IF exactMatch(routes, host) # {}
             THEN /\ \E x \in exactMatch(routes, host) : mres' = [mres EXCEPT ![r] = x]
                  /\ mpc' = [mpc EXCEPT ![r] = "unlock"]
             ELSE /\ mpc' = [mpc EXCEPT ![r] = "wild"]
                  /\ UNCHANGED mres
    /\ UNCHANGED <<watcherVars, rrVars, mVars, pVars, routes, rtWriter, rtReaders, upc, uarg, mreq, mseen>>

\* lines 57-64: the wildcard scan of rt.routes
MatchWild(r) ==
    /\ mpc[r] = "wild"
    /\ \E x \in wildcardMatch(routes, mhost[r]) : mres' = [mres EXCEPT ![r] = x]
    /\ mpc' = [mpc EXCEPT ![r] = "unlock"]
    /\ UNCHANGED <<watcherVars, rrVars, mVars, pVars, routes, rtWriter, rtReaders, upc, uarg, mreq, mhost, mseen>>

\* line 45: the deferred rt.mu.RUnlock(); the result is returned
MatchRUnlock(r) ==
    /\ mpc[r] = "unlock"
    /\ rtReaders' = rtReaders \ {r}
    /\ mpc' = [mpc EXCEPT ![r] = "done"]
    /\ UNCHANGED <<watcherVars, rrVars, mVars, pVars, routes, rtWriter, upc, uarg, mreq, mhost, mres, mseen>>

\* the caller has used the result
MatchReturn(r) ==
    /\ mpc[r] = "done"
    /\ mpc' = [mpc EXCEPT ![r] = "idle"]
    /\ mreq' = [mreq EXCEPT ![r] = EmptyStr]
    /\ mhost' = [mhost EXCEPT ![r] = EmptyStr]
    /\ mres' = [mres EXCEPT ![r] = NilRoute]
    /\ mseen' = [mseen EXCEPT ![r] = {}]
    /\ UNCHANGED <<watcherVars, rrVars, mVars, pVars, routes, rtWriter, rtReaders, upc, uarg>>

------------------------------------------------------------------------------
(* Route.GetHealthyBackend *)

Callers == {1, 2}

\* int(start): the conversion of the unsigned cursor to int keeps the bits
toInt(u) == IF u >= 2^(CursorBits - 1) THEN u - 2^CursorBits ELSE u

\* int addition wraps around
wrapInt(x) == ((x + 2^(CursorBits - 1)) % 2^CursorBits) - 2^(CursorBits - 1)

\* Go's %: the remainder has the sign of the dividend
goRem(a, n) == IF a >= 0 THEN a % n ELSE 0 - ((0 - a) % n)

\* lines 76-82: the scan from start; the index (from 1) of the backend returned,
\* 0 for nil, -1 when Backends[idx] is indexed with a negative idx (a panic)
RECURSIVE scanFrom(_, _, _)
scanFrom(start, hs, i) ==
    IF i >= Len(hs) THEN 0
    ELSE LET idx == goRem(wrapInt(toInt(start) + i), Len(hs))
         IN IF idx < 0 THEN 0 - 1
            ELSE IF hs[idx + 1] THEN idx + 1
            ELSE scanFrom(start, hs, i + 1)

RRIdle ==
    /\ next = 0
    /\ backends = <<>>
    /\ gpc = [c \in Callers |-> "idle"]
    /\ gstart = [c \in Callers |-> 0]
    /\ gres = [c \in Callers |-> 0]
    /\ served = <<>>
    /\ calls = 0

\* lines 69-75: the empty list returns nil; otherwise atomic.AddUint64(&r.next, 1)
GetHealthyBackendAdd(c) ==
    /\ gpc[c] = "idle"
    /\ calls < MaxCalls
    /\ IF Len(backends) = 0
       THEN /\ gpc' = [gpc EXCEPT ![c] = "done"]
            /\ UNCHANGED <<next, gstart, calls>>
       ELSE /\ next' = (next + 1) % 2^CursorBits
            /\ gstart' = [gstart EXCEPT ![c] = (next + 1) % 2^CursorBits]
            /\ gpc' = [gpc EXCEPT ![c] = "scan"]
            /\ calls' = calls + 1
    /\ gres' = [gres EXCEPT ![c] = 0]
    /\ UNCHANGED <<watcherVars, mVars, pVars, routes, rtVars, backends, served>>

\* lines 76-82: the scan of Backends
GetHealthyBackendScan(c) ==
    /\ gpc[c] = "scan"
    /\ gres' = [gres EXCEPT ![c] = scanFrom(gstart[c], backends, 0)]
    /\ served' = IF scanFrom(gstart[c], backends, 0) >= 1
                 THEN [served EXCEPT ![scanFrom(gstart[c], backends, 0)] = @ + 1]
                 ELSE served
    /\ gpc' = [gpc EXCEPT ![c] = "done"]
    /\ UNCHANGED <<watcherVars, mVars, pVars, routes, rtVars, next, backends, gstart, calls>>

\* the caller has used the result (or its goroutine has ended in the panic)
GetHealthyBackendReturn(c) ==
    /\ gpc[c] = "done"
    /\ gpc' = [gpc EXCEPT ![c] = "idle"]
    /\ gres' = [gres EXCEPT ![c] = 0]
    /\ gstart' = [gstart EXCEPT ![c] = 0]
    /\ UNCHANGED <<watcherVars, mVars, pVars, routes, rtVars, next, backends, served, calls>>

------------------------------------------------------------------------------
(* metrics.Metrics: counters, latency samples and the sorted cache *)

\* the sample limit the callers of SpecMetrics configure (the tests lower
\* m.maxSamples in the same way)
MaxSamples == 2

\* line 71: the sample limit New sets
DefaultMaxSamples == 10000

\* RecordRequest calls in one behaviour
MaxRecords == 3

\* the (domain, backend) pairs requests are recorded and queried for
MPairs == {<<"d1", "b1">>, <<"d1", "b2">>}

StatusCodes == {200, 502}

\* durations, in milliseconds; duration.Seconds() keeps their order
Durations == {1, 2}

\* the quantiles callers ask for, in hundredths
PsLists == {<<0, 25, 50, 75, 99, 100>>}

Queriers == {1, 2}

\* delete(m, k)
MapDelete(m, k) == [x \in (DOMAIN m) \ {k} |-> m[x]]

\* m[d][b] of a two-level map, with the zero value for a missing key
Get2(m, d, b, zero) == MapGet(MapGet(m, d, EmptyMap), b, zero)

\* m[d][b] = v, m[d] made when it is nil
Set2(m, d, b, v) == MapSet(m, d, MapSet(MapGet(m, d, EmptyMap), b, v))

\* an increment that starts the code's counter again for every call
incRequestsFresh(req, d, b, code) == Set2(req, d, b, MapSet(EmptyMap, code, 1))

\* lines 80-89: m.requests[domain][backend][statusCode]++
incRequests(req, d, b, code) ==
    Set2(req, d, b, MapSet(Get2(req, d, b, EmptyMap), code,
                           MapGet(Get2(req, d, b, EmptyMap), code, 0) + 1))

\* a window that never evicts
rollingWindowKeepAll(samples) == samples

\* lines 100-102: samples[len(samples)-m.maxSamples:]
rollingWindow(samples) ==
    IF Len(samples) > maxSamples
    THEN SubSeq(samples, Len(samples) - maxSamples + 1, Len(samples))
    ELSE samples

\* lines 92-104: append the sample, keep the window
addSample(ls, d, b, dur) == Set2(ls, d, b, rollingWindow(Append(Get2(ls, d, b, <<>>), dur)))

\* an invalidation that drops the cache of the whole domain
invalidateDomain(sc, d, b) == MapDelete(sc, d)

\* an invalidation that is left out once the window is full, where a write
\* leaves the number of samples as it was
invalidateWhenGrown(sc, d, b) ==
    IF d \in DOMAIN sc /\ Len(Get2(latencySamples, d, b, <<>>)) < maxSamples
    THEN [sc EXCEPT ![d] = MapDelete(@, b)]
    ELSE sc

\* lines 107-109: delete(m.sortedCache[domain], backend)
invalidate(sc, d, b) ==
    IF d \in DOMAIN sc THEN [sc EXCEPT ![d] = MapDelete(@, b)] ELSE sc

\* a sort that leaves the samples in arrival order
sortedCopyUnsorted(samples) == samples

\* lines 185-187: copy(sorted, samples); sort.Float64s(sorted)
sortedCopy(samples) == SortSeq(samples, LAMBDA x, y : x < y)

\* an index that rounds to the nearest rank
quantileIndexRounded(n, q) == (((n - 1) * q * 2) + 100) \div 200

\* lines 159-165 and 197-203: int(float64(n-1) * p), clamped to 0..n-1
quantileIndex(n, q) ==
    LET idx == ((n - 1) * q) \div 100
    IN IF idx < 0 THEN 0 ELSE IF idx >= n THEN n - 1 ELSE idx

\* lines 158-167 and 196-205: results[i] = sorted[idx]
quantilesOf(sorted, ps) == [i \in 1..Len(ps) |-> sorted[quantileIndex(Len(sorted), ps[i]) + 1]]

\* a result slice that starts empty
zeroResultsEmpty(ps) == <<>>

\* line 142: make([]float64, len(ps))
zeroResults(ps) == [i \in 1..Len(ps) |-> 0]

\* lines 239-247: SampleCount
SampleCount(d, b) == Len(Get2(latencySamples, d, b, <<>>))

\* lines 114-130: RequestCounts, read for one triple
RequestCount(d, b, code) == MapGet(Get2(requests, d, b, EmptyMap), code, 0)

\* RecordRequest calls made so far
Recorded == LET RECURSIVE total(_)
                total(K) == IF K = {} THEN 0
                            ELSE LET k == CHOOSE x \in K : TRUE
                                 IN Len(hist[k]) + total(K \ {k})
            IN total(DOMAIN hist)

\* New(): empty maps, no Percentiles call in progress
MIdle ==
    /\ requests = EmptyMap
    /\ latencySamples = EmptyMap
    /\ sortedCache = EmptyMap
    /\ hist = EmptyMap
    /\ qpc = [c \in Queriers |-> "idle"]
    /\ qarg = [c \in Queriers |-> <<>>]
    /\ qres = [c \in Queriers |-> <<>>]
    /\ maxSamples = MaxSamples
    /\ feed = <<>>

\* lines 76-110: the body of RecordRequest, which runs with m.mu held
recordRequest(d, b, code, dur) ==
    /\ requests' = incRequests(requests, d, b, code)
    /\ latencySamples' = addSample(latencySamples, d, b, dur)
    /\ sortedCache' = invalidate(sortedCache, d, b)
    /\ hist' = MapSet(hist, <<d, b>>,
                      Append(MapGet(hist, <<d, b>>, <<>>), [code |-> code, dur |-> dur]))

\* a caller records a request
RecordRequest ==
    /\ Recorded < MaxRecords
    /\ \E k \in MPairs, code \in StatusCodes, dur \in Durations :
           recordRequest(k[1], k[2], code, dur)
    /\ UNCHANGED <<watcherVars, routes, rtVars, rrVars, pVars, qpc, qarg, qres, maxSamples, feed>>

\* lines 142-171: Percentiles under the read lock: no samples, a cache hit, or
\* a miss that goes on to the write lock
PercentilesRead(c) ==
    /\ qpc[c] = "idle"
    /\ \E k \in MPairs, ps \in PsLists :
           LET d == k[1]
               b == k[2]
               samples == Get2(latencySamples, d, b, <<>>)
               sorted == Get2(sortedCache, d, b, <<>>)
           IN /\ qarg' = [qarg EXCEPT ![c] = [d |-> d, b |-> b, ps |-> ps]]
              /\ IF Len(samples) = 0
                 THEN /\ qres' = [qres EXCEPT ![c] = zeroResults(ps)]
                      /\ qpc' = [qpc EXCEPT ![c] = "none"]
                 ELSE IF sorted # <<>> /\ Len(sorted) = Len(samples)
                 THEN /\ qres' = [qres EXCEPT ![c] = quantilesOf(sorted, ps)]
                      /\ qpc' = [qpc EXCEPT ![c] = "hit"]
                 ELSE /\ qres' = [qres EXCEPT ![c] = zeroResults(ps)]
                      /\ qpc' = [qpc EXCEPT ![c] = "upgrade"]
    /\ UNCHANGED <<watcherVars, routes, rtVars, rrVars, pVars, requests, latencySamples, sortedCache,
                   hist, maxSamples, feed>>

\* a write-lock part that copies and sorts without looking at the cache again
PercentilesWriteNoRecheck(c) ==
    /\ qpc[c] = "upgrade"
    /\ LET d == qarg[c].d
           b == qarg[c].b
           samples == Get2(latencySamples, d, b, <<>>)
       IN IF Len(samples) = 0
          THEN /\ qpc' = [qpc EXCEPT ![c] = "none"]
               /\ UNCHANGED <<qres, sortedCache>>
          ELSE /\ sortedCache' = Set2(sortedCache, d, b, sortedCopy(samples))
               /\ qres' = [qres EXCEPT ![c] = quantilesOf(sortedCopy(samples), qarg[c].ps)]
               /\ qpc' = [qpc EXCEPT ![c] = "miss"]
    /\ UNCHANGED <<watcherVars, routes, rtVars, rrVars, pVars, requests, latencySamples, hist, qarg,
                   maxSamples, feed>>

\* lines 174-207: Percentiles under the write lock: the samples are read
\* again; the sorted copy is made and cached ("miss") unless another caller
\* has cached one of the same length in the meantime ("found")
PercentilesWrite(c) ==
    /\ qpc[c] = "upgrade"
    /\ LET d == qarg[c].d
           b == qarg[c].b
           samples == Get2(latencySamples, d, b, <<>>)
           cached == Get2(sortedCache, d, b, <<>>)
       IN IF Len(samples) = 0
          THEN /\ qpc' = [qpc EXCEPT ![c] = "none"]
               /\ UNCHANGED <<qres, sortedCache>>
          ELSE IF cached = <<>> \/ Len(cached) # Len(samples)
          THEN /\ sortedCache' = Set2(sortedCache, d, b, sortedCopy(samples))
               /\ qres' = [qres EXCEPT ![c] = quantilesOf(sortedCopy(samples), qarg[c].ps)]
               /\ qpc' = [qpc EXCEPT ![c] = "miss"]
          ELSE /\ UNCHANGED sortedCache
               /\ qres' = [qres EXCEPT ![c] = quantilesOf(cached, qarg[c].ps)]
               /\ qpc' = [qpc EXCEPT ![c] = "found"]
    /\ UNCHANGED <<watcherVars, routes, rtVars, rrVars, pVars, requests, latencySamples, hist, qarg,
                   maxSamples, feed>>

\* the loop of TestMetricsPercentile: one RecordRequest per duration, for
\* one (domain, backend)
RecordFeed ==
    /\ feed # <<>>
    /\ recordRequest("d1", "b1", 200, Head(feed))
    /\ feed' = Tail(feed)
    /\ UNCHANGED <<watcherVars, routes, rtVars, rrVars, pVars, qpc, qarg, qres, maxSamples>>

\* domain and backend names as byte strings: "ab", "b", "a"
KeyDomains == {<<1, 2>>, <<2>>, <<1>>}

\* "b", "ab"
KeyBackends == {<<2>>, <<1, 2>>}

\* a < b for strings: the bytewise comparison sort.Strings uses
lessString(a, b) ==
    \E i \in 1..(Min(Len(a), Len(b)) + 1) :
        /\ \A j \in 1..(i - 1) : a[j] = b[j]
        /\ \/ i > Len(a) /\ i <= Len(b)
           \/ i <= Len(a) /\ i <= Len(b) /\ a[i] < b[i]

\* the orders in which a range loop over a map with the keys S can visit them
RangeOrders(S) ==
    {s \in [1..Cardinality(S) -> S] : \A i, j \in 1..Cardinality(S) : i # j => s[i] # s[j]}

\* a snapshot that is returned in the order the range loop found the keys in
sortStringsSkipped(list) == list

\* lines 219 and 234: sort.Strings
sortStrings(list) == SortSeq(list, lessString)

\* a caller records a request under one of the names
RecordKey ==
    /\ Recorded < MaxRecords
    /\ \E d \in KeyDomains, b \in KeyBackends, code \in StatusCodes :
           recordRequest(d, b, code, 1)
    /\ UNCHANGED <<watcherVars, routes, rtVars, rrVars, pVars, qpc, qarg, qres, maxSamples, feed>>

\* lines 211-221: AllDomains, which runs with the read lock held
AllDomainsCall(c) ==
    /\ qpc[c] = "idle"
    /\ \E domains \in RangeOrders(DOMAIN requests) :
           qres' = [qres EXCEPT ![c] = sortStrings(domains)]
    /\ qpc' = [qpc EXCEPT ![c] = "domains"]
    /\ UNCHANGED <<watcherVars, routes, rtVars, rrVars, pVars, requests, latencySamples, sortedCache,
                   hist, qarg, maxSamples, feed>>

\* lines 224-236: AllBackends, which runs with the read lock held
AllBackendsCall(c) ==
    /\ qpc[c] = "idle"
    /\ \E domain \in KeyDomains :
           /\ qarg' = [qarg EXCEPT ![c] = [d |-> domain]]
           /\ \E names \in RangeOrders(DOMAIN MapGet(requests, domain, EmptyMap)) :
                  qres' = [qres EXCEPT ![c] = sortStrings(names)]
    /\ qpc' = [qpc EXCEPT ![c] = "backends"]
    /\ UNCHANGED <<watcherVars, routes, rtVars, rrVars, pVars, requests, latencySamples, sortedCache,
                   hist, maxSamples, feed>>

\* the caller has used the snapshot
KeysReturn(c) ==
    /\ qpc[c] \in {"domains", "backends"}
    /\ qpc' = [qpc EXCEPT ![c] = "idle"]
    /\ qarg' = [qarg EXCEPT ![c] = <<>>]
    /\ qres' = [qres EXCEPT ![c] = <<>>]
    /\ UNCHANGED <<watcherVars, routes, rtVars, rrVars, pVars, requests, latencySamples, sortedCache,
                   hist, maxSamples, feed>>

\* the caller has used the results
PercentilesReturn(c) ==
    /\ qpc[c] \in {"none", "hit", "miss", "found"}
    /\ qpc' = [qpc EXCEPT ![c] = "idle"]
    /\ qarg' = [qarg EXCEPT ![c] = <<>>]
    /\ qres' = [qres EXCEPT ![c] = <<>>]
    /\ UNCHANGED <<watcherVars, routes, rtVars, rrVars, pVars, requests, latencySamples, sortedCache,
                   hist, maxSamples, feed>>

------------------------------------------------------------------------------
(* lb.Proxy: ServeHTTP on the route table, one route's backends and the metrics store *)

Handlers == {1, 2}

\* requests in one behaviour
MaxRequests == 2

\* the Host of the requests: "a.x" and "x"
ProxyHosts == {PatExact, <<"x">>}

\* the tables the proxy serves from: none, or the route of "a.x"
ProxyTables == {EmptyMap, [p \in {PatExact} |-> RouteFor(p)]}

\* the status codes backends answer with
BackendStatuses == {200, 404}

\* time.Since(start), in milliseconds
ElapsedTimes == {1}

\* Backend.Address of the served route's backend i
AddressOf(i) == <<"h1", i>>

StatusBadGateway == 502

StatusServiceUnavailable == 503

StatusInternalServerError == 500

PIdle ==
    /\ addrOk = <<>>
    /\ ppc = [h \in Handlers |-> "idle"]
    /\ preq = [h \in Handlers |-> EmptyStr]
    /\ pback = [h \in Handlers |-> 0]
    /\ psent = [h \in Handlers |-> 0]
    /\ precs = [h \in Handlers |-> <<>>]
    /\ ppicks = [h \in Handlers |-> 0]
    /\ pout = [h \in Handlers |-> "none"]
    /\ pcount = 0

\* lines 72-76: recordMetrics, with the store NewProxy was given; the elapsed
\* time is whatever the clock says
recordMetrics(h, domain, backend, statusCode) ==
    /\ \E dur \in ElapsedTimes : recordRequest(domain, backend, statusCode, dur)
    /\ precs' = [precs EXCEPT ![h] = Append(@, [backend |-> backend, status |-> statusCode])]

\* lines 29-37: Match; on nil the outcome is recorded and 502 is sent
ServeMatch(h) ==
    /\ ppc[h] = "idle"
    /\ pcount < MaxRequests
    /\ pcount' = pcount + 1
    /\ \E domain \in ProxyHosts : \E route \in matchOn(routes, domain) :
           /\ preq' = [preq EXCEPT ![h] = domain]
           /\ IF route = NilRoute
              THEN /\ recordMetrics(h, domain, EmptyStr, StatusBadGateway)
                   /\ psent' = [psent EXCEPT ![h] = StatusBadGateway]
                   /\ ppc' = [ppc EXCEPT ![h] = "done"]
              ELSE /\ ppc' = [ppc EXCEPT ![h] = "route"]
                   /\ UNCHANGED <<requests, latencySamples, sortedCache, hist, precs, psent>>
    /\ UNCHANGED <<watcherVars, routes, rtVars, rrVars, qpc, qarg, qres, maxSamples, feed,
                   addrOk, pback, ppicks, pout>>

\* lines 39-51: GetHealthyBackend (lines 68-82 of route.go), then url.Parse of
\* the address; nil is recorded and answered 503, a parse error 500; a negative
\* index panics
ServePick(h) ==
    /\ ppc[h] = "route"
    /\ ppicks' = [ppicks EXCEPT ![h] = @ + 1]
    /\ LET start == (next + 1) % 2^CursorBits
           idx == IF Len(backends) = 0 THEN 0 ELSE scanFrom(start, backends, 0)
       IN /\ next' = IF Len(backends) = 0 THEN next ELSE start
          /\ IF idx < 0
             THEN /\ ppc' = [ppc EXCEPT ![h] = "panicked"]
                  /\ UNCHANGED <<requests, latencySamples, sortedCache, hist, precs, psent,
                                 pback>>
             ELSE IF idx = 0
             THEN /\ recordMetrics(h, preq[h], EmptyStr, StatusServiceUnavailable)
                  /\ psent' = [psent EXCEPT ![h] = StatusServiceUnavailable]
                  /\ ppc' = [ppc EXCEPT ![h] = "done"]
                  /\ UNCHANGED pback
             ELSE /\ pback' = [pback EXCEPT ![h] = idx]
                  /\ IF addrOk[idx]
                     THEN /\ ppc' = [ppc EXCEPT ![h] = "forward"]
                          /\ UNCHANGED <<requests, latencySamples, sortedCache, hist, precs,
                                         psent>>
                     ELSE /\ recordMetrics(h, preq[h], AddressOf(idx),
                                           StatusInternalServerError)
                          /\ psent' = [psent EXCEPT ![h] = StatusInternalServerError]
                          /\ ppc' = [ppc EXCEPT ![h] = "done"]
    /\ UNCHANGED <<watcherVars, routes, rtVars, backends, gpc, gstart, gres, served, calls,
                   qpc, qarg, qres, maxSamples, feed, addrOk, preq, pout, pcount>>

\* a handler that tries another backend when forwarding fails
ServeForwardRetry(h) ==
    /\ ppc[h] = "forward"
    /\ ppicks' = [ppicks EXCEPT ![h] = @ + 1]
    /\ next' = (next + 1) % 2^CursorBits
    /\ backends' = [backends EXCEPT ![pback[h]] = FALSE]
    /\ recordMetrics(h, preq[h], AddressOf(pback[h]), StatusBadGateway)
    /\ psent' = [psent EXCEPT ![h] = StatusBadGateway]
    /\ ppc' = [ppc EXCEPT ![h] = "done"]
    /\ pout' = [pout EXCEPT ![h] = "failed"]
    /\ UNCHANGED <<watcherVars, routes, rtVars, gpc, gstart, gres, served, calls,
                   qpc, qarg, qres, maxSamples, feed, addrOk, preq, pback, pcount>>

\* lines 54-68: the reverse proxy forwards. The backend answers and its status
\* is passed through WriteHeader; or the round trip fails and ErrorHandler
\* answers 502; in both cases the outcome is recorded at line 68. Or the
\* backend's status has gone out and copying the body fails: then
\* httputil.ReverseProxy panics with http.ErrAbortHandler and line 68 is
\* not reached.
ServeForward(h) ==
    /\ ppc[h] = "forward"
    /\ \/ \E code \in BackendStatuses :
              /\ psent' = [psent EXCEPT ![h] = code]
              /\ recordMetrics(h, preq[h], AddressOf(pback[h]), code)
              /\ ppc' = [ppc EXCEPT ![h] = "done"]
              /\ pout' = [pout EXCEPT ![h] = "answered"]
       \/ /\ psent' = [psent EXCEPT ![h] = StatusBadGateway]
          /\ recordMetrics(h, preq[h], AddressOf(pback[h]), StatusBadGateway)
          /\ ppc' = [ppc EXCEPT ![h] = "done"]
          /\ pout' = [pout EXCEPT ![h] = "failed"]
       \/ \E code \in BackendStatuses :
              /\ psent' = [psent EXCEPT ![h] = code]
              /\ ppc' = [ppc EXCEPT ![h] = "panicked"]
              /\ pout' = [pout EXCEPT ![h] = "aborted"]
              /\ UNCHANGED <<requests, latencySamples, sortedCache, hist, precs>>
    /\ UNCHANGED <<watcherVars, routes, rtVars, rrVars, qpc, qarg, qres, maxSamples, feed,
                   addrOk, preq, pback, ppicks, pcount>>

\* the request is over: ServeHTTP has returned, or net/http has recovered the
\* panic and closed the connection
ServeReturn(h) ==
    /\ ppc[h] \in {"done", "panicked"}
    /\ ppc' = [ppc EXCEPT ![h] = "idle"]
    /\ preq' = [preq EXCEPT ![h] = EmptyStr]
    /\ pback' = [pback EXCEPT ![h] = 0]
    /\ psent' = [psent EXCEPT ![h] = 0]
    /\ precs' = [precs EXCEPT ![h] = <<>>]
    /\ ppicks' = [ppicks EXCEPT ![h] = 0]
    /\ pout' = [pout EXCEPT ![h] = "none"]
    /\ UNCHANGED <<watcherVars, routes, rtVars, rrVars, mVars, addrOk, pcount>>

------------------------------------------------------------------------------
(* The watcher and its environment *)

Init ==
    /\ cancelled = FALSE
    /\ pc = "run_check"
    /\ stack = <<>>
    /\ base = "seed"
    /\ fireTodo = {}
    /\ agentHosts = EmptyMap
    /\ jobs = EmptyMap
    /\ relevant = {}
    /\ tasks = EmptyMap
    /\ routes = EmptyMap
    /\ pending = {}
    /\ debounce = "stopped"
    /\ reader = "none"
    /\ line = NoLine
    /\ att = NoAttempt
    /\ cyc = NoCycle
    /\ events = 0
    /\ tagFilter \in TagFilters
    /\ skipped = FALSE
    /\ orch = NoOrch
    /\ RTIdle
    /\ RRIdle
    /\ MIdle
    /\ PIdle

Next ==
    \/ Cancel
    \/ TimerFire
    \/ StreamLine
    \/ StreamEnd
    \/ RunCheck
    \/ Connect
    \/ RunAfter
    \/ RetryWait
    \/ FetchAgents
    \/ FetchJobs
    \/ SyncLoop
    \/ SyncJob
    \/ StreamInit
    \/ SelectDone
    \/ SelectClosed
    \/ SelectLine
    \/ SelectFire
    \/ FireLoop
    \/ FireDone

Spec == Init /\ [][Next]_vars

------------------------------------------------------------------------------
(* One writer and concurrent readers of the route table *)

\* the watcher has not started; the table is the empty one of NewRouteTable
InitRT ==
    /\ Init
    /\ tagFilter = EmptyStr

NextRT ==
    \/ UpdateCall
    \/ UpdateLock
    \/ UpdateStore
    \/ UpdateUnlock
    \/ \E r \in Readers : MatchRLock(r)
    \/ \E r \in Readers : MatchExact(r)
    \/ \E r \in Readers : MatchWild(r)
    \/ \E r \in Readers : MatchRUnlock(r)
    \/ \E r \in Readers : MatchReturn(r)

SpecRT == InitRT /\ [][NextRT]_vars

------------------------------------------------------------------------------
(* Callers of GetHealthyBackend on one route, from any cursor value *)

\* the watcher has not started and has no tag filter
WatcherNotStarted ==
    /\ cancelled = FALSE
    /\ pc = "run_check"
    /\ stack = <<>>
    /\ base = "seed"
    /\ fireTodo = {}
    /\ agentHosts = EmptyMap
    /\ jobs = EmptyMap
    /\ relevant = {}
    /\ tasks = EmptyMap
    /\ pending = {}
    /\ debounce = "stopped"
    /\ reader = "none"
    /\ line = NoLine
    /\ att = NoAttempt
    /\ cyc = NoCycle
    /\ events = 0
    /\ tagFilter = EmptyStr
    /\ skipped = FALSE
    /\ orch = NoOrch

InitRR ==
    /\ WatcherNotStarted
    /\ routes = EmptyMap
    /\ RTIdle
    /\ next \in 0..(2^CursorBits - 1)
    /\ backends \in UNION { [1..n -> BOOLEAN] : n \in 0..MaxBackends }
    /\ gpc = [c \in Callers |-> "idle"]
    /\ gstart = [c \in Callers |-> 0]
    /\ gres = [c \in Callers |-> 0]
    /\ served = [i \in DOMAIN backends |-> 0]
    /\ calls = 0
    /\ MIdle
    /\ PIdle

NextRR ==
    \/ \E c \in Callers : GetHealthyBackendAdd(c)
    \/ \E c \in Callers : GetHealthyBackendScan(c)
    \/ \E c \in Callers : GetHealthyBackendReturn(c)

SpecRR == InitRR /\ [][NextRR]_vars

------------------------------------------------------------------------------
(* Callers of the metrics store *)

InitMetrics ==
    /\ WatcherNotStarted
    /\ routes = EmptyMap
    /\ RTIdle
    /\ RRIdle
    /\ MIdle
    /\ PIdle

NextMetrics ==
    \/ RecordRequest
    \/ \E c \in Queriers : PercentilesRead(c)
    \/ \E c \in Queriers : PercentilesWrite(c)
    \/ \E c \in Queriers : PercentilesReturn(c)

SpecMetrics == InitMetrics /\ [][NextMetrics]_vars

------------------------------------------------------------------------------
(* Readers that ask for percentiles once the requests have been recorded *)

\* requests recorded before the readers start
MaxFeed == 3

FeedsUpTo(n) == UNION {[1..m -> Durations] : m \in 1..n}

InitReaders ==
    /\ WatcherNotStarted
    /\ routes = EmptyMap
    /\ RTIdle
    /\ RRIdle
    /\ PIdle
    /\ requests = EmptyMap
    /\ latencySamples = EmptyMap
    /\ sortedCache = EmptyMap
    /\ hist = EmptyMap
    /\ qpc = [c \in Queriers |-> "idle"]
    /\ qarg = [c \in Queriers |-> <<>>]
    /\ qres = [c \in Queriers |-> <<>>]
    /\ maxSamples = MaxSamples
    /\ feed \in FeedsUpTo(MaxFeed)

NextReaders ==
    \/ RecordFeed
    \/ \E c \in Queriers : feed = <<>> /\ PercentilesRead(c)
    \/ \E c \in Queriers : PercentilesWrite(c)
    \/ \E c \in Queriers : PercentilesReturn(c)

SpecReaders == InitReaders /\ [][NextReaders]_vars

------------------------------------------------------------------------------
(* Callers of the key snapshots of the metrics store *)

InitKeys == InitMetrics

NextKeys ==
    \/ RecordKey
    \/ \E c \in Queriers : AllDomainsCall(c)
    \/ \E c \in Queriers : AllBackendsCall(c)
    \/ \E c \in Queriers : KeysReturn(c)

SpecKeys == InitKeys /\ [][NextKeys]_vars

------------------------------------------------------------------------------
(* Requests served by the proxy, on any route and from any cursor value *)

\* every address parses, or the first one does not
AddrChoices(n) == {[i \in 1..n |-> TRUE]} \cup {[i \in 1..n |-> i # 1] : k \in 1..Min(n, 1)}

InitProxy ==
    /\ WatcherNotStarted
    /\ routes \in ProxyTables
    /\ RTIdle
    /\ next \in 0..(2^CursorBits - 1)
    /\ backends \in UNION { [1..n -> BOOLEAN] : n \in 0..MaxBackends }
    /\ gpc = [c \in Callers |-> "idle"]
    /\ gstart = [c \in Callers |-> 0]
    /\ gres = [c \in Callers |-> 0]
    /\ served = [i \in DOMAIN backends |-> 0]
    /\ calls = 0
    /\ MIdle
    /\ addrOk \in AddrChoices(Len(backends))
    /\ ppc = [h \in Handlers |-> "idle"]
    /\ preq = [h \in Handlers |-> EmptyStr]
    /\ pback = [h \in Handlers |-> 0]
    /\ psent = [h \in Handlers |-> 0]
    /\ precs = [h \in Handlers |-> <<>>]
    /\ ppicks = [h \in Handlers |-> 0]
    /\ pout = [h \in Handlers |-> "none"]
    /\ pcount = 0

NextProxy ==
    \/ \E h \in Handlers : ServeMatch(h)
    \/ \E h \in Handlers : ServePick(h)
    \/ \E h \in Handlers : ServeForward(h)
    \/ \E h \in Handlers : ServeReturn(h)

SpecProxy == InitProxy /\ [][NextProxy]_vars

------------------------------------------------------------------------------
(* The durations 1ms..100ms recorded for one pair, in several arrival orders *)

\* the number of durations the test records
SampleRun == 100

\* arrival orders tried besides the descending one
MaxOrders == 20

\* the durations 1..SampleRun in the order k, 2k, 3k, ... modulo SampleRun + 1,
\* which is a prime: k = 1 is the ascending order of the test
ArrivalOrder(k) == [i \in 1..SampleRun |-> (i * k) % (SampleRun + 1)]

ArrivalOrders == {ArrivalOrder(k) : k \in 1..MaxOrders} \cup {ArrivalOrder(SampleRun)}

InitPercentile ==
    /\ WatcherNotStarted
    /\ routes = EmptyMap
    /\ RTIdle
    /\ RRIdle
    /\ PIdle
    /\ requests = EmptyMap
    /\ latencySamples = EmptyMap
    /\ sortedCache = EmptyMap
    /\ hist = EmptyMap
    /\ qpc = [c \in Queriers |-> "idle"]
    /\ qarg = [c \in Queriers |-> <<>>]
    /\ qres = [c \in Queriers |-> <<>>]
    /\ maxSamples = DefaultMaxSamples
    /\ feed \in ArrivalOrders

\* the test's goroutine
TestCaller == CHOOSE c \in Queriers : TRUE

\* the test records in its loop and asks for percentiles after it
NextPercentile ==
    \/ RecordFeed
    \/ feed = <<>> /\ PercentilesRead(TestCaller)
    \/ PercentilesWrite(TestCaller)
    \/ PercentilesReturn(TestCaller)

SpecPercentile == InitPercentile /\ [][NextPercentile]_vars

------------------------------------------------------------------------------
(* Match on any table, for any host *)

InitMatch ==
    /\ WatcherNotStarted
    /\ routes \in Tables
    /\ RTIdle
    /\ RRIdle
    /\ MIdle
    /\ PIdle

NextMatch ==
    \/ \E r \in Readers : MatchRLock(r)
    \/ \E r \in Readers : MatchExact(r)
    \/ \E r \in Readers : MatchWild(r)
    \/ \E r \in Readers : MatchRUnlock(r)
    \/ \E r \in Readers : MatchReturn(r)

SpecMatch == InitMatch /\ [][NextMatch]_vars

------------------------------------------------------------------------------
(* The watcher goroutine is scheduled, and every fetch returns (the HTTP     *)
(* client has a 10s timeout)                                                 *)

WatcherStep ==
    \/ RunCheck
    \/ Connect
    \/ RunAfter
    \/ RetryWait
    \/ FetchAgents
    \/ FetchJobs
    \/ SyncLoop
    \/ SyncJob
    \/ StreamInit
    \/ SelectDone
    \/ SelectClosed
    \/ SelectLine
    \/ SelectFire
    \/ FireLoop
    \/ FireDone

FairSpec == Spec /\ WF_vars(WatcherStep)

\* Go's select picks among its ready cases at random: a case that is ready
\* again and again is eventually picked
SelectFairSpec == FairSpec /\ SF_vars(SelectDone)

------------------------------------------------------------------------------
(* The watcher on an orchestrator that announces its changes: the stream stays
   open, every fetch succeeds, nobody cancels *)

\* the watcher starts on an orchestrator in one of the states S
StartsOn(S) ==
    /\ cancelled = FALSE
    /\ pc = "run_check"
    /\ stack = <<>>
    /\ base = "seed"
    /\ fireTodo = {}
    /\ agentHosts = EmptyMap
    /\ jobs = EmptyMap
    /\ relevant = {}
    /\ tasks = EmptyMap
    /\ pending = {}
    /\ debounce = "stopped"
    /\ reader = "none"
    /\ line = NoLine
    /\ att = NoAttempt
    /\ cyc = NoCycle
    /\ events = 0
    /\ tagFilter \in TagFilters
    /\ skipped = FALSE
    /\ orch \in S
    /\ routes = EmptyMap
    /\ RTIdle
    /\ RRIdle
    /\ MIdle
    /\ PIdle

InitConverge == StartsOn(OrchStates)

NextConverge ==
    \/ OrchTaskChange
    \/ OrchJobChange
    \/ OrchStreamLine
    \/ TimerFire
    \/ RunCheck
    \/ OrchConnect
    \/ OrchFetchAgents
    \/ OrchFetchJobs
    \/ SyncLoop
    \/ OrchSyncJob
    \/ StreamInit
    \/ SelectLine
    \/ SelectFire
    \/ FireLoop
    \/ FireDone

\* everything but the orchestrator's changes
ConvergeStep ==
    \/ OrchStreamLine
    \/ TimerFire
    \/ RunCheck
    \/ OrchConnect
    \/ OrchFetchAgents
    \/ OrchFetchJobs
    \/ SyncLoop
    \/ OrchSyncJob
    \/ StreamInit
    \/ SelectLine
    \/ SelectFire
    \/ FireLoop
    \/ FireDone

\* the stream delivers what was announced, the timer expires, the goroutine runs
SpecConverge == InitConverge /\ [][NextConverge]_vars /\ WF_vars(ConvergeStep)

------------------------------------------------------------------------------
(* One streaming session on that orchestrator, which a cancellation or the
   end of the stream can cut short *)

\* the orchestrator's states with the agent a1 and, for every job, a running
\* and a stopped task on it
SessionStates ==
    {o \in OrchStates : /\ o.agents = <<Agent1>>
                        /\ \A j \in JobNames : o.status[j].Agents = <<Agent1>>}

InitSession == StartsOn(SessionStates)

\* cancel() once the stream is open
CancelSession == Subscribed /\ Cancel

\* the stream ends once everything announced has been read
SessionEnd == orch.queue = <<>> /\ StreamEnd

NextSession ==
    \/ NextConverge
    \/ CancelSession
    \/ SessionEnd
    \/ SelectDone
    \/ SelectClosed
    \/ RunAfter

\* the goroutine runs, the stream delivers what was announced, the timer
\* expires, and a select whose timer case stays ready eventually picks it
SpecSession ==
    /\ InitSession
    /\ [][NextSession]_vars
    /\ WF_vars(ConvergeStep)
    /\ WF_vars(SelectFire)

------------------------------------------------------------------------------
(* The watcher on an orchestrator whose agent a1 can move to another host *)

\* a1 registers again from another host; its tasks restart and an event names
\* one of the jobs
OrchAgentMove ==
    /\ Subscribed
    /\ orch.left > 0
    /\ \E j \in NamesOf(orch.jobs) :
           LET to == IF orch.agents = <<Agent1>> THEN <<Agent1Moved>> ELSE <<Agent1>>
           IN orch' = [orch EXCEPT !.agents = to,
                                   !.status = [k \in JobNames |->
                                                  IF orch.status[k].Agents = <<>>
                                                  THEN orch.status[k]
                                                  ELSE [orch.status[k] EXCEPT !.Agents = to]],
                                   !.queue = Append(@, j),
                                   !.left = @ - 1]
    /\ UNCHANGED <<cancelled, pc, stack, base, fireTodo, agentHosts, jobs, relevant, tasks,
                   routes, pending, debounce, reader, line, att, cyc, events, tagFilter,
                   skipped, rtVars, rrVars, mVars, pVars>>

\* a task of job j starts or stops; the status names a1 where a1 is now
OrchTaskMove ==
    /\ Subscribed
    /\ orch.left > 0
    /\ \E j \in NamesOf(orch.jobs) :
           \E r \in StatusResponses(j) :
               LET now == IF r.Agents = <<>> THEN r ELSE [r EXCEPT !.Agents = orch.agents]
               IN /\ now # orch.status[j]
                  /\ orch' = [orch EXCEPT !.status[j] = now, !.queue = Append(@, j),
                                          !.left = @ - 1]
    /\ UNCHANGED <<cancelled, pc, stack, base, fireTodo, agentHosts, jobs, relevant, tasks,
                   routes, pending, debounce, reader, line, att, cyc, events, tagFilter,
                   skipped, rtVars, rrVars, mVars, pVars>>

\* /v1/agents answers with a1 where it is now
MovedFetchAgents == fetchAgentsFrom({orch.agents}) /\ pc' = "sync_jobs"

\* /v1/jobs/{name}/status answers with the job's status
MovedSyncJob == syncJobWith({orch.status[Top.job]}) /\ pc' \notin {"sync_agents", "overflow"}

InitMoved == StartsOn(SessionStates)

NextMoved ==
    \/ OrchAgentMove
    \/ OrchTaskMove
    \/ OrchJobChange
    \/ OrchStreamLine
    \/ TimerFire
    \/ RunCheck
    \/ OrchConnect
    \/ MovedFetchAgents
    \/ OrchFetchJobs
    \/ SyncLoop
    \/ MovedSyncJob
    \/ StreamInit
    \/ SelectLine
    \/ SelectFire
    \/ FireLoop
    \/ FireDone

SpecMoved == InitMoved /\ [][NextMoved]_vars

------------------------------------------------------------------------------
(* Properties *)

\* C1: a Match that has returned saw exactly one value of rt.routes while it
\* held the lock (no Update replaced or changed the map under it), and its
\* result is a result that this one generation gives for the requested host.
C1_MatchSeesOneGeneration ==
    \A r \in Readers :
        mpc[r] = "done" =>
            \E g \in Generations :
                /\ mseen[r] = {g}
                /\ mres[r] \in matchOn(g, mreq[r])

\* a Match returned a route from a generation that an Update has replaced since,
\* while the other reader is in the middle of its lookup
C1_Witness ==
    \E r, q \in Readers :
        /\ mpc[r] = "done"
        /\ mres[r] # NilRoute
        /\ routes \notin mseen[r]
        /\ mpc[q] = "wild"

FullSyncRunning == att.kind \in {"seed", "full"} /\ ~att.done

\* C2: while a full sync that has met no failure runs, a route table that differs
\* from the one the sync began with was built with the tasks of every relevant
\* job loaded; and a full sync that ends without failure has replaced the route
\* table exactly once.
C2_FullSyncPublishesOnce ==
    /\ (FullSyncRunning /\ ~att.failed /\ routes # att.before)
           => relevant \subseteq DOMAIN tasks
    /\ (att.kind \in {"seed", "full"} /\ att.done /\ ~att.failed) => att.updates = 1

\* C3: when an outermost sync attempt has ended, some fetch in it failed and no
\* sync inside it ran from its first fetch to its route rebuild without a
\* failure, the route table is the one the attempt began with.
C3_FailedSyncKeepsTable ==
    (att.done /\ att.failed /\ ~att.recovered) => routes = att.before

\* C4: every sync attempt terminates: sync and syncJob never nest beyond what the
\* goroutine stack holds, and whenever sync or syncJob is active, control
\* eventually returns to watchSSE.
C4_SyncTerminates ==
    /\ [](pc # "overflow")
    /\ (stack # <<>>) ~> (stack = <<>>)

\* C5: once ctx is cancelled, no step of the watcher starts a sync.
C5_NoSyncStartsAfterCancel ==
    [][cancelled => ~(stack = <<>> /\ stack' # <<>>)]_vars

\* C6: in a debounce cycle whose pending set is one job that was known when the
\* timer fired, and in which no fetch has failed, the status of that job is
\* fetched at most once and nothing else is fetched; when the cycle ends it has
\* been fetched exactly once, by one incremental sync, however many events named
\* the job in the window.
C6_DebounceCoalesces ==
    \A j \in JobNames :
        (cyc.active /\ cyc.allKnown /\ pending = {j} /\ ~cyc.failed) =>
            /\ cyc.nStatus[j] <= 1
            /\ \A k \in JobNames \ {j} : cyc.nStatus[k] = 0
            /\ cyc.nAgents = 0 /\ cyc.nJobs = 0
            /\ cyc.topFull = 0
            /\ pc = "fire_done" => (cyc.nStatus[j] = 1 /\ cyc.topIncr = {j})

\* a cycle for j1 alone has ended after two or more events named it
C6_Witness ==
    /\ pc = "fire_done"
    /\ cyc.active /\ cyc.allKnown /\ ~cyc.failed
    /\ pending = {"j1"}
    /\ events >= 2
    /\ cyc.nStatus["j1"] = 1

\* C7: in a debounce cycle, if some pending job was not in w.jobs when the timer
\* fired, the handler calls sync once and never syncJob; if every pending job was
\* known, the handler never calls sync, calls syncJob only for pending jobs, and
\* at the end of the cycle has called it for each of them, with (absent fetch
\* failures) one status fetch per pending job and no fetch of agents or jobs.
C7_NewJobDetection ==
    cyc.active =>
        IF ~cyc.allKnown
        THEN cyc.topFull = 1 /\ cyc.topIncr = {}
        ELSE /\ cyc.topFull = 0
             /\ cyc.topIncr \subseteq pending
             /\ pc = "fire_done" => cyc.topIncr = pending
             /\ (pc = "fire_done" /\ ~cyc.failed) =>
                   /\ cyc.nAgents = 0 /\ cyc.nJobs = 0
                   /\ \A j \in JobNames : cyc.nStatus[j] = IF j \in pending THEN 1 ELSE 0

\* a cycle whose pending set held a known and an unknown job has ended
C7_Witness ==
    /\ pc = "fire_done"
    /\ cyc.active /\ ~cyc.allKnown
    /\ pending = JobNames
    /\ cyc.topFull = 1

\* the status fetch of an incremental sync fails in this step
IncrementalFetchFails ==
    /\ pc = "job_status"
    /\ att.kind = "incr"
    /\ Len(stack) = 1
    /\ ~att.failed
    /\ att'.failed

\* C8: the step in which the status fetch of an incremental sync fails enters
\* sync (the next fetch is the agent list of a full sync, in the same cycle) and
\* leaves the cached tasks, that job's entry included, as they were.
C8_IncrementalFailureFallsBack ==
    [][IncrementalFetchFails =>
          /\ pc' = "sync_agents"
          /\ Len(stack') = 2 /\ stack'[2].fn = "sync"
          /\ cyc'.active
          /\ tasks' = tasks]_vars

\* the fallback sync of a failed incremental sync is about to fetch the agents,
\* and the failed job's tasks are still cached
C8_Witness ==
    /\ pc = "sync_agents"
    /\ att.kind = "incr" /\ att.failed
    /\ Len(stack) = 2
    /\ att.job \in DOMAIN tasks
    /\ cyc.active

SeedRunning == base = "seed" /\ stack # <<>>

\* C9: a step from the connection attempt either starts the seeding full sync
\* (success) or goes to the check before the retry wait without touching the
\* cache or the route table (failure); while the seeding sync runs no line
\* reader exists and nothing is pending; streaming is entered from outside the
\* loop only after the seeding sync has returned; after a failed connection the
\* watcher waits, and leaves the wait to connect again or, cancelled, to stop.
C9_ConnectSeedsBeforeStreaming ==
    /\ [](SeedRunning => (reader = "none" /\ pending = {} /\ debounce = "stopped"))
    /\ [][(pc = "connect" /\ pc' # "connect") =>
              \/ /\ pc' = "sync_agents"
                 /\ stack' = <<SyncFrame>>
                 /\ base' = "seed"
              \/ /\ pc' = "run_after"
                 /\ stack' = <<>>
                 /\ UNCHANGED <<agentHosts, jobs, relevant, tasks, routes>>]_vars
    /\ [][(pc' = "select" /\ pc \notin {"select", "fire_done"}) =>
              (pc = "stream_init" /\ att.kind = "seed" /\ att.done)]_vars
    /\ [][(pc = "run_after" /\ pc' # "run_after") =>
              (pc' = (IF cancelled THEN "stopped" ELSE "retry_wait")
               /\ UNCHANGED <<stack, agentHosts, jobs, relevant, tasks, routes>>)]_vars
    /\ [][(pc = "retry_wait" /\ pc' # "retry_wait") =>
              ((pc' = "run_check" \/ (cancelled /\ pc' = "stopped"))
               /\ UNCHANGED <<stack, agentHosts, jobs, relevant, tasks, routes>>)]_vars
    /\ [][(pc = "run_check" /\ pc' # "run_check") =>
              pc' = (IF cancelled THEN "stopped" ELSE "connect")]_vars

\* after a reconnection the seeding sync has returned, having published routes,
\* and the watcher is about to start streaming
C9_Witness ==
    /\ pc = "stream_init"
    /\ att.kind = "seed" /\ att.done /\ ~att.failed
    /\ routes # EmptyMap
    /\ routes # att.before
    /\ att.before # EmptyMap

\* C10: once the orchestrator has accepted a connection, the watcher reaches
\* Streaming unless it is cancelled; and it stops only when cancelled.
C10_ReachesStreaming ==
    /\ [](pc = "stopped" => cancelled)
    /\ SeedRunning ~> (pc = "select" \/ cancelled)

\* the watcher waits in the select of watchSSE or in the reconnect delay
Suspended == pc \in {"select", "retry_wait"}

\* C11: a watcher that is cancelled while it waits for a stream line, for the
\* debounce timer or for the end of the reconnect delay eventually stops (Run
\* returns).
C11_StopsAfterCancel == (cancelled /\ Suspended) ~> (pc = "stopped")

\* the select of watchSSE receives a line in this step
LineReceived == pc = "select" /\ reader = "send" /\ reader' = "scan"

\* C12: the step that receives an event naming a job that is in w.jobs and not
\* in w.relevant leaves the pending set and the debounce timer as they were,
\* starts no sync (so makes no fetch) and leaves the cache and the route table
\* as they were.
C12_IrrelevantEventDiscarded ==
    [][(LineReceived /\ line.data
            /\ parseJobFromData(line) \in DOMAIN jobs
            /\ parseJobFromData(line) \notin relevant) =>
          /\ pc' = "select"
          /\ UNCHANGED <<pending, debounce, stack, cyc, att, fireTodo>>
          /\ UNCHANGED <<agentHosts, jobs, relevant, tasks, routes>>]_vars

\* an event for the known, irrelevant job j2 has just been discarded while an
\* event for j1 is pending and the timer runs
C12_Witness ==
    /\ skipped
    /\ pc = "select"
    /\ "j2" \in DOMAIN jobs /\ "j2" \notin relevant
    /\ pending = {"j1"}
    /\ debounce = "armed"

\* no sync or syncJob is running
Quiescent == stack = <<>> /\ pc # "overflow"

\* the backends of all routes of a table
BackendsOf(rs) ==
    UNION { {rs[p].Backends[i] : i \in 1..Len(rs[p].Backends)} : p \in DOMAIN rs }

\* the ports that the tasks of job j can have
PortsOf(j) ==
    UNION { UNION { UNION { {r.TasksByAgent[a][i].Ports[k]
                             : k \in DOMAIN r.TasksByAgent[a][i].Ports}
                            : i \in 1..Len(r.TasksByAgent[a]) }
                    : a \in DOMAIN r.TasksByAgent }
            : r \in StatusResponses(j) }

\* every backend of the table rs comes from a job that, in the cache js, has a
\* URL prefix and passes the tag filter
FromRelevantJobs(rs, js) ==
    \A b \in BackendsOf(rs) : \A j \in JobNames :
        b.Address[2] \in PortsOf(j) =>
            /\ j \in DOMAIN js
            /\ MapGet(js[j].Tags, KeyUrlPrefix, EmptyStr) # EmptyStr
            /\ (tagFilter = EmptyStr
                  \/ MapGet(js[j].Tags, parseTagFilter(tagFilter)[1], EmptyStr)
                        = parseTagFilter(tagFilter)[2])

\* C13: every route table the watcher publishes, and the route table whenever
\* no sync is running, holds only backends of jobs that, in the cache, have a
\* non-empty URL-prefix tag and pass the tag filter.
C13_RelevanceFilter ==
    /\ [](Quiescent => FromRelevantJobs(routes, jobs))
    /\ [][routes' # routes => FromRelevantJobs(routes', jobs')]_vars

\* no sync is running, the tag filter is set, routes are published, and the
\* cache holds a running task with ports of job j2, which fails the filter
C13_Witness ==
    /\ Quiescent
    /\ tagFilter # EmptyStr
    /\ routes # EmptyMap
    /\ "j2" \in DOMAIN jobs /\ "j2" \notin relevant
    /\ MapGet(jobs["j2"].Tags, KeyUrlPrefix, EmptyStr) # EmptyStr
    /\ "j2" \in DOMAIN tasks
    /\ "a1" \in DOMAIN tasks["j2"]
    /\ tasks["j2"]["a1"][1].State = "running"
    /\ tasks["j2"]["a1"][1].Ports # EmptyMap

\* backend b of the route of pattern pat is accounted for by a task of the
\* cache: a running task of a relevant job with that pattern, on an agent whose
\* host name is known, with a port taskPort can resolve to and that is not 0
FromRunningTask(pat, b, hosts, js, rel, ts) ==
    \E j \in rel :
        /\ j \in DOMAIN js /\ j \in DOMAIN ts
        /\ MapGet(js[j].Tags, KeyUrlPrefix, EmptyStr) = pat
        /\ \E a \in DOMAIN ts[j] : \E i \in 1..Len(ts[j][a]) :
              LET t == ts[j][a][i]
                  named == MapGet(js[j].Tags, KeyPort, EmptyStr)
                  port == b.Address[2]
              IN /\ t.State = "running"
                 /\ a \in DOMAIN hosts /\ hosts[a] # "" /\ b.Address[1] = hosts[a]
                 /\ port # 0
                 /\ \E k \in DOMAIN t.Ports : t.Ports[k] = port
                 /\ (named \in DOMAIN t.Ports /\ named # EmptyStr) => t.Ports[named] = port

AllFromRunningTasks(rs, hosts, js, rel, ts) ==
    \A pat \in DOMAIN rs : \A i \in 1..Len(rs[pat].Backends) :
        /\ rs[pat].Backends[i].Healthy
        /\ FromRunningTask(pat, rs[pat].Backends[i], hosts, js, rel, ts)

\* C14: every route table the watcher publishes, and the route table whenever
\* no sync is running, holds only backends of cached tasks that are running,
\* resolve to a non-zero port and sit on an agent with a known host name.
C14_RunningOnly ==
    /\ [](Quiescent => AllFromRunningTasks(routes, agentHosts, jobs, relevant, tasks))
    /\ [][routes' # routes =>
             AllFromRunningTasks(routes', agentHosts', jobs', relevant', tasks')]_vars

\* no sync is running; j1 is cached with its running and its stopped task on
\* a1, and its route has the one backend of the running task
C14_Witness ==
    /\ Quiescent
    /\ "j1" \in relevant
    /\ "j1" \in DOMAIN tasks
    /\ "a1" \in DOMAIN tasks["j1"]
    /\ Len(tasks["j1"]["a1"]) = 2
    /\ tasks["j1"]["a1"][2].State = "stopped"
    /\ PatExact \in DOMAIN routes
    /\ Len(routes[PatExact].Backends) = 1
    /\ routes[PatExact].Backends[1].Address = <<"h1", JobPort("j1")>>

\* C15: when no call is in progress on a route with N >= 1 backends, all
\* healthy, and N*k calls have been made, each backend has been returned k times.
C15_RoundRobinFair ==
    (/\ Len(backends) >= 1
     /\ \A i \in DOMAIN backends : backends[i]
     /\ \A c \in Callers : gpc[c] = "idle"
     /\ calls % Len(backends) = 0)
        => \A i \in DOMAIN backends : served[i] * Len(backends) = calls

\* C16: a call that has finished its scan has not returned an unhealthy backend,
\* and it has returned nil exactly if the list is empty or no backend is healthy.
C16_UnhealthySkip ==
    \A c \in Callers :
        gpc[c] = "done" =>
            /\ gres[c] >= 1 => backends[gres[c]]
            /\ gres[c] = 0 <=> (\A i \in DOMAIN backends : ~backends[i])

\* C17: a Match of a host without port on a table that holds the host as an
\* exact pattern and also a wildcard pattern matching it returns the exact route.
C17_ExactOverWildcard ==
    \A r \in Readers :
        (/\ mpc[r] = "done"
         /\ Count(mreq[r], ":") = 0
         /\ mreq[r] \in DOMAIN routes
         /\ \E p \in DOMAIN routes : matchWildcard(p, mreq[r]))
            => mres[r] = routes[mreq[r]]

\* "a.x" was matched on a table that holds "a.x" and "*.x"
C17_Witness ==
    \E r \in Readers :
        /\ mpc[r] = "done"
        /\ mreq[r] = PatExact
        /\ {PatExact, PatWild} \subseteq DOMAIN routes
        /\ mres[r].Pattern = PatExact

\* host h is one non-empty label without a dot, followed by the pattern p
\* without its "*"
OneLabelUnder(p, h) ==
    /\ Len(p) >= 2 /\ p[1] = "*" /\ p[2] = "."
    /\ \E n \in 1..Len(h) :
          /\ \A k \in 1..n : h[k] # "."
          /\ SubSeq(h, n + 1, Len(h)) = SubSeq(p, 2, Len(p))

\* the wildcard scan of a Match has run (the exact lookup had missed)
WildcardScanned(r) == mpc[r] \in {"unlock", "done"} /\ mhost[r] \notin DOMAIN routes

\* C18: the wildcard scan returns a route only if the host is one label under
\* the route's pattern, and returns none only if the host is one label under no
\* pattern of the table.
C18_SingleLevelWildcard ==
    \A r \in Readers :
        WildcardScanned(r) =>
            IF mres[r] # NilRoute
            THEN OneLabelUnder(mres[r].Pattern, mhost[r])
            ELSE \A p \in DOMAIN routes : ~OneLabelUnder(p, mhost[r])

\* the reference resolver: the host up to its last ":"
refHost(req) ==
    IF Count(req, ":") = 0 THEN req
    ELSE SubSeq(req, 1, (CHOOSE i \in 1..Len(req) :
                            req[i] = ":" /\ \A k \in (i + 1)..Len(req) : req[k] # ":") - 1)

\* the reference resolver: "*" followed by the host from its first "." onward
refWildKey(h) ==
    <<"*">> \o SubSeq(h, (CHOOSE i \in 1..Len(h) : h[i] = "." /\ \A k \in 1..(i - 1) : h[k] # "."),
                      Len(h))

\* the reference resolver: two lookups
refMatch(rs, req) ==
    LET h == refHost(req)
    IN IF h \in DOMAIN rs THEN rs[h]
       ELSE IF Count(h, ".") > 0 /\ refWildKey(h) \in DOMAIN rs THEN rs[refWildKey(h)]
       ELSE NilRoute

\* C19: whatever order the wildcard scan visits the routes in, a Match returns
\* what the two-lookup reference resolver returns for the same table and host.
C19_MatchEqualsTwoLookups ==
    \A r \in Readers : mpc[r] = "done" => mres[r] = refMatch(routes, mreq[r])

\* "b.a.x" was matched on a table with the wildcard patterns "*.x" and "*.a.x"
\* and got the route of "*.a.x"
C19_Witness ==
    \E r \in Readers :
        /\ mpc[r] = "done"
        /\ mreq[r] = <<"b", ".", "a", ".", "x">>
        /\ {PatWild, <<"*", ".", "a", ".", "x">>} \subseteq DOMAIN routes
        /\ mres[r].Pattern = <<"*", ".", "a", ".", "x">>

\* request q is request r's host followed by ":" and a port
WithPort(q, r) ==
    /\ Count(mreq[r], ":") = 0
    /\ Len(mreq[q]) > Len(mreq[r]) + 1
    /\ SubSeq(mreq[q], 1, Len(mreq[r]) + 1) = mreq[r] \o <<":">>
    /\ Count(mreq[q], ":") = 1

\* C20: on the same table, a Match of h:p returns what a Match of h returns,
\* for a host h without a colon.
C20_PortStripping ==
    \A q, r \in Readers :
        (mpc[q] = "done" /\ mpc[r] = "done" /\ WithPort(q, r)) => mres[q] = mres[r]

\* "b.x:8" and "b.x" were matched on a table with "*.x" and got its route
C20_Witness ==
    \E q, r \in Readers :
        /\ mpc[q] = "done" /\ mpc[r] = "done"
        /\ mreq[q] = <<"b", ".", "x", ":", "8">>
        /\ mreq[r] = <<"b", ".", "x">>
        /\ mres[q] = mres[r]
        /\ mres[q].Pattern = PatWild

\* C21: when an Update returns the table is its argument and nothing else, the
\* table changes in no other way, and a Match that ran on one generation returns
\* what that generation alone gives for its host: none on the empty generation.
C21_UpdateReplaces ==
    /\ [][(upc = "unlock" /\ upc' = "idle") => routes' = uarg]_vars
    /\ [][routes' # routes => (upc = "store" /\ upc' = "unlock")]_vars
    /\ [](\A r \in Readers : \A g \in mseen[r] :
              (mpc[r] = "done" /\ mseen[r] = {g}) =>
                  /\ mres[r] = refMatch(g, mreq[r])
                  /\ (g = EmptyMap => mres[r] = NilRoute))

\* "a.x" was matched and routed; then Update(empty map) returned and a second
\* Match of "a.x" found nothing
C21_Witness ==
    \E q, r \in Readers :
        /\ mpc[q] = "done" /\ mpc[r] = "done" /\ upc = "idle"
        /\ mreq[q] = PatExact /\ mreq[r] = PatExact
        /\ mres[q] # NilRoute
        /\ routes = EmptyMap /\ mseen[r] = {EmptyMap}
        /\ mres[r] = NilRoute

\* every backend of the route is healthy
AllHealthy == Len(backends) >= 1 /\ \A i \in DOMAIN backends : backends[i]

\* call c took the cursor value right after the one call q took
NextCallAfter(c, q) ==
    /\ c # q
    /\ gpc[q] = "done" /\ gpc[c] = "done"
    /\ gstart[c] = (gstart[q] + 1) % 2^CursorBits

\* C22: with every backend healthy, when one call has returned the backend at
\* index i, the call after it returns the backend at index (i+1) mod N.
C22_CyclicOrder ==
    \A c, q \in Callers :
        (AllHealthy /\ NextCallAfter(c, q) /\ gres[q] >= 1) =>
            gres[c] = (gres[q] % Len(backends)) + 1

\* the request of handler h is over
RequestOver(h) == ppc[h] \in {"done", "panicked"}

\* C23: a request that is over has made exactly one RecordRequest call, and no
\* request ever makes two.
C23_RecordedExactlyOnce ==
    \A h \in Handlers :
        /\ Len(precs[h]) <= 1
        /\ RequestOver(h) => Len(precs[h]) = 1

\* the table has no route for the host of h's request
NoRouteFor(h) == matchOn(routes, preq[h]) = {NilRoute}

\* the served route has no healthy backend
NoHealthyBackend == \A i \in DOMAIN backends : ~backends[i]

\* C24: a request that is over was answered 502 and recorded with 502 and the
\* empty backend label when no route matched its host; 503 when its route had
\* no healthy backend; 500 when the chosen backend's address was malformed;
\* 502 when forwarding failed; and what was recorded is what was sent.
C24_RoutingErrorOutcomes ==
    \A h \in Handlers :
        RequestOver(h) =>
            /\ NoRouteFor(h) =>
                   /\ psent[h] = StatusBadGateway
                   /\ precs[h] = <<[backend |-> EmptyStr, status |-> StatusBadGateway]>>
            /\ (~NoRouteFor(h) /\ NoHealthyBackend) => psent[h] = StatusServiceUnavailable
            /\ (pback[h] # 0 /\ ~addrOk[pback[h]]) => psent[h] = StatusInternalServerError
            /\ pout[h] = "failed" => psent[h] = StatusBadGateway
            /\ ppc[h] = "done" => /\ Len(precs[h]) = 1
                                  /\ precs[h][1].status = psent[h]

\* C25: the step in which forwarding fails changes no backend's Healthy flag and
\* no route; a request calls GetHealthyBackend at most once, and the cursor
\* moves only by one, in the step of such a call.
C25_ForwardingErrorFrame ==
    /\ [][\A h \in Handlers :
              (pout[h] = "none" /\ pout'[h] = "failed") =>
                  /\ backends' = backends
                  /\ routes' = routes
                  /\ next' = next
                  /\ ppicks'[h] = ppicks[h]]_vars
    /\ [][next' # next =>
              /\ next' = (next + 1) % 2^CursorBits
              /\ \E h \in Handlers : ppicks[h] = 0 /\ ppicks'[h] = 1]_vars
    /\ [](\A h \in Handlers : ppicks[h] <= 1)

\* forwarding to the chosen backend has failed: the request was answered 502
\* after one GetHealthyBackend call and the backend is still healthy
C25_Witness ==
    \E h \in Handlers :
        /\ ppc[h] = "done" /\ pout[h] = "failed"
        /\ psent[h] = StatusBadGateway
        /\ ppicks[h] = 1
        /\ backends[pback[h]]

\* this step is a RecordRequest call for the pair k
RecordedFor(k) == MapGet(hist', k, <<>>) # MapGet(hist, k, <<>>)

\* the sorted-cache entry of the pair k, <<>> when there is none
CacheEntry(sc, k) == Get2(sc, k[1], k[2], <<>>)

\* C26: a RecordRequest call for a pair leaves that pair without a sorted-cache
\* entry, and leaves the cache entry, the samples and the counters of every
\* other pair as they were.
C26_CacheCoherence ==
    [][\A k \in MPairs :
          RecordedFor(k) =>
              /\ CacheEntry(sortedCache', k) = <<>>
              /\ \A o \in MPairs \ {k} :
                     /\ CacheEntry(sortedCache', o) = CacheEntry(sortedCache, o)
                     /\ Get2(latencySamples', o[1], o[2], <<>>)
                            = Get2(latencySamples, o[1], o[2], <<>>)
                     /\ Get2(requests', o[1], o[2], EmptyMap)
                            = Get2(requests, o[1], o[2], EmptyMap)]_vars

\* a Percentiles call has cached the sorted samples of ("d1", "b1") and still
\* holds its results; a RecordRequest for that pair has removed the entry, and
\* the entry of the other backend of "d1" is still cached
C26_Witness ==
    /\ \E c \in Queriers : qpc[c] = "miss" /\ qarg[c].d = "d1" /\ qarg[c].b = "b1"
    /\ CacheEntry(sortedCache, <<"d1", "b1">>) = <<>>
    /\ CacheEntry(sortedCache, <<"d1", "b2">>) # <<>>

\* the durations of the last n calls recorded for the pair k, in arrival order
LastDurations(k, n) ==
    LET h == MapGet(hist, k, <<>>)
    IN [i \in 1..n |-> h[Len(h) - n + i].dur]

\* C27: the samples of every pair are the durations of its most recent
\* min(calls, limit) RecordRequest calls in arrival order, and SampleCount is
\* their number, never above the limit.
C27_RollingWindow ==
    \A k \in MPairs :
        LET n == Min(Len(MapGet(hist, k, <<>>)), maxSamples)
        IN /\ Get2(latencySamples, k[1], k[2], <<>>) = LastDurations(k, n)
           /\ SampleCount(k[1], k[2]) = n
           /\ SampleCount(k[1], k[2]) <= maxSamples

\* more calls than the limit were recorded for ("d1", "b1"), with the durations
\* 1, 2, 1: the window holds 2, 1
C27_Witness ==
    /\ Len(MapGet(hist, <<"d1", "b1">>, <<>>)) = maxSamples + 1
    /\ LastDurations(<<"d1", "b1">>, 3) = <<1, 2, 1>>
    /\ Get2(latencySamples, "d1", "b1", <<>>) = <<2, 1>>

\* the calls recorded for the pair k with the status code
CallsWith(k, code) ==
    Cardinality({i \in 1..Len(MapGet(hist, k, <<>>)) : hist[k][i].code = code})

\* C28: the counter of every (domain, backend, status code) is the number of
\* RecordRequest calls made with it, in every state (after evictions and
\* Percentiles calls too), and no step lowers a counter.
C28_CountersExact ==
    /\ [](\A k \in MPairs, code \in StatusCodes :
              RequestCount(k[1], k[2], code) = CallsWith(k, code))
    /\ [][\A k \in MPairs, code \in StatusCodes :
              MapGet(Get2(requests', k[1], k[2], EmptyMap), code, 0)
                  >= MapGet(Get2(requests, k[1], k[2], EmptyMap), code, 0)]_vars

\* three calls for ("d1", "b1"), two with 200 and one with 502: a sample has
\* been evicted, a Percentiles call has run on the pair, the counters are 2 and 1
C28_Witness ==
    /\ RequestCount("d1", "b1", 200) = 2
    /\ RequestCount("d1", "b1", 502) = 1
    /\ SampleCount("d1", "b1") < Len(MapGet(hist, <<"d1", "b1">>, <<>>))
    /\ \E c \in Queriers : qpc[c] = "miss" /\ qarg[c].d = "d1" /\ qarg[c].b = "b1"

\* the i-th smallest of the samples, i from 1
KthSmallest(samples, i) ==
    CHOOSE v \in {samples[j] : j \in 1..Len(samples)} :
        /\ Cardinality({j \in 1..Len(samples) : samples[j] <= v}) >= i
        /\ Cardinality({j \in 1..Len(samples) : samples[j] < v}) < i

\* round((n-1) * q) for q in hundredths
RoundedRank(n, q) == (((n - 1) * q * 2) + 100) \div 200

\* the integer part of (n-1) * q for q in hundredths
TruncatedRank(n, q) == ((n - 1) * q) \div 100

\* in this step the Percentiles call of c produces its results from samples
Answers(c) == qpc[c] \in {"idle", "upgrade"} /\ qpc'[c] \in {"hit", "miss", "found"}

\* the live samples of the pair c asks about
AskedSamples(c) == Get2(latencySamples, qarg'[c].d, qarg'[c].b, <<>>)

\* C29 as stated: on a cache hit and on a cache miss, each result is the element
\* at index round((n-1)*q) of the ascending-sorted live samples.
C29_RoundedRank ==
    [][\A c \in Queriers :
          Answers(c) =>
              \A i \in 1..Len(qarg'[c].ps) :
                  qres'[c][i] = KthSmallest(AskedSamples(c),
                                            RoundedRank(Len(AskedSamples(c)), qarg'[c].ps[i]) + 1)]_vars

\* C29 amended: on a cache hit and on a cache miss, each result is the element
\* at the index that is the integer part of (n-1)*q of the ascending-sorted
\* live samples.
C29_TruncatedRank ==
    [][\A c \in Queriers :
          Answers(c) =>
              \A i \in 1..Len(qarg'[c].ps) :
                  qres'[c][i] = KthSmallest(AskedSamples(c),
                                            TruncatedRank(Len(AskedSamples(c)), qarg'[c].ps[i]) + 1)]_vars

\* the samples 2, 1 of one pair were asked for twice, once on the miss path and
\* once on the hit path: both calls got 1 for the quantiles 0 to 0.99 and 2 for 1
C29_Witness ==
    \E c, e \in Queriers :
        /\ qpc[c] = "miss" /\ qpc[e] = "hit"
        /\ qarg[c] = qarg[e]
        /\ Get2(latencySamples, qarg[c].d, qarg[c].b, <<>>) = <<2, 1>>
        /\ qarg[c].ps = <<0, 25, 50, 75, 99, 100>>
        /\ qres[c] = <<1, 1, 1, 1, 1, 2>>
        /\ qres[e] = <<1, 1, 1, 1, 1, 2>>

\* C30: once 1ms..100ms have been recorded for a pair, in whatever order, a
\* Percentiles call for it answers the 0.50 quantile with a value in 50..51 and
\* the 0.99 quantile with a value in 99..100.
C30_PercentileOfHundred ==
    [][\A c \in Queriers :
          (Answers(c) /\ feed = <<>> /\ qarg'[c].d = "d1" /\ qarg'[c].b = "b1") =>
              \A i \in 1..Len(qarg'[c].ps) :
                  /\ qarg'[c].ps[i] = 50 => qres'[c][i] \in 50..51
                  /\ qarg'[c].ps[i] = 99 => qres'[c][i] \in 99..100]_vars

\* the hundred durations arrived in another order than the ascending one and
\* a Percentiles call made after the last of them answered 50 and 99
C30_Witness ==
    \E c \in Queriers :
        /\ feed = <<>>
        /\ qpc[c] = "miss"
        /\ Len(Get2(latencySamples, "d1", "b1", <<>>)) = SampleRun
        /\ latencySamples["d1"]["b1"][1] # 1
        /\ CacheEntry(sortedCache, <<"d1", "b1">>) # <<>>
        /\ qarg[c].ps = <<0, 25, 50, 75, 99, 100>>
        /\ qres[c][3] = 50
        /\ qres[c][5] = 99

\* the pair c asks about has no samples when the call reads them
AsksEmptyPair(c) ==
    /\ qpc[c] = "idle" /\ qpc'[c] # "idle"
    /\ Get2(latencySamples, qarg'[c].d, qarg'[c].b, <<>>) = <<>>

\* C31: for a pair that was never recorded, SampleCount is 0; a Percentiles
\* call for a pair without samples returns one zero for every quantile asked
\* for, and leaves the counters, the samples and the sorted cache as they were,
\* with no entry made for the pair.
C31_UnknownPairYieldsZeros ==
    /\ [](\A k \in MPairs : k \notin DOMAIN hist => SampleCount(k[1], k[2]) = 0)
    /\ [][\A c \in Queriers :
              AsksEmptyPair(c) =>
                  /\ qpc'[c] = "none"
                  /\ Len(qres'[c]) = Len(qarg'[c].ps)
                  /\ \A i \in 1..Len(qres'[c]) : qres'[c][i] = 0
                  /\ requests' = requests
                  /\ latencySamples' = latencySamples
                  /\ sortedCache' = sortedCache]_vars

\* requests were recorded for ("d1", "b1") only; a Percentiles call for the
\* other backend of "d1" has returned six zeros, and no map has an entry for it
C31_Witness ==
    \E c \in Queriers :
        /\ qpc[c] = "none"
        /\ qarg[c].d = "d1" /\ qarg[c].b = "b2"
        /\ qres[c] = <<0, 0, 0, 0, 0, 0>>
        /\ DOMAIN hist = {<<"d1", "b1">>}
        /\ SampleCount("d1", "b2") = 0
        /\ "b2" \notin DOMAIN MapGet(requests, "d1", EmptyMap)
        /\ "b2" \notin DOMAIN MapGet(latencySamples, "d1", EmptyMap)
        /\ "b2" \notin DOMAIN MapGet(sortedCache, "d1", EmptyMap)

\* the list is in ascending bytewise order and names nothing twice
StrictlyAscending(list) ==
    \A i \in 1..(Len(list) - 1) : lessString(list[i], list[i + 1])

\* the elements of the list
Elements(list) == {list[i] : i \in 1..Len(list)}

\* C32: AllDomains returns, in ascending order and without duplicates, the
\* domains at least one request was recorded for; AllBackends(d) returns in
\* the same way the backends recorded for d, and the empty list for a domain
\* nothing was recorded for.
C32_SortedKeySnapshots ==
    [][\A c \in Queriers :
          /\ (qpc[c] = "idle" /\ qpc'[c] = "domains") =>
                 /\ StrictlyAscending(qres'[c])
                 /\ Elements(qres'[c]) = {k[1] : k \in DOMAIN hist}
          /\ (qpc[c] = "idle" /\ qpc'[c] = "backends") =>
                 /\ StrictlyAscending(qres'[c])
                 /\ Elements(qres'[c]) = {k[2] : k \in {x \in DOMAIN hist : x[1] = qarg'[c].d}}]_vars

\* requests were recorded for "b", "ab" and "a": one caller got the domains as
\* "a", "ab", "b", the other got the empty list for a domain that was unknown
\* when it asked
C32_Witness ==
    \E c, e \in Queriers :
        /\ qpc[c] = "domains"
        /\ qres[c] = <<(<<1>>), <<1, 2>>, (<<2>>)>>
        /\ qpc[e] = "backends"
        /\ qres[e] = <<>>

\* the list is in ascending order
Ascending(list) == \A i \in 1..(Len(list) - 1) : list[i] <= list[i + 1]

\* the two lists hold the same values the same number of times
SameValues(a, b) ==
    /\ Len(a) = Len(b)
    /\ \A v \in Elements(a) \cup Elements(b) :
           Cardinality({i \in 1..Len(a) : a[i] = v}) = Cardinality({i \in 1..Len(b) : b[i] = v})

\* C33: in every state, under any interleaving of RecordRequest and Percentiles
\* calls, a sorted-cache entry that exists for a pair is the pair's current
\* samples in ascending order, also after a write into a full window; and the
\* results of a Percentiles call are the quantiles of the samples as they are at
\* the step that computes them, between the call and its return.
C33_CacheNeverStale ==
    /\ [](\A k \in MPairs :
              CacheEntry(sortedCache, k) # <<>> =>
                  /\ Ascending(CacheEntry(sortedCache, k))
                  /\ SameValues(CacheEntry(sortedCache, k),
                                Get2(latencySamples, k[1], k[2], <<>>)))
    /\ [][\A c \in Queriers :
              Answers(c) =>
                  \E now \in {AskedSamples(c)} :
                      /\ now = Get2(latencySamples', qarg'[c].d, qarg'[c].b, <<>>)
                      /\ \A i \in 1..Len(qarg'[c].ps) :
                             qres'[c][i] = KthSmallest(now, quantileIndex(Len(now), qarg'[c].ps[i]) + 1)]_vars

\* 2, 2 were recorded for a pair and one caller computed its results from
\* them; then 1 was recorded into the full window, and a second caller
\* computed its results from 2, 1: the cache holds 1, 2
C33_Witness ==
    \E c, e \in Queriers, k \in MPairs :
        /\ qpc[c] = "miss" /\ qpc[e] = "miss"
        /\ qarg[c] = qarg[e] /\ qarg[c].d = k[1] /\ qarg[c].b = k[2]
        /\ Len(MapGet(hist, k, <<>>)) = maxSamples + 1
        /\ Get2(latencySamples, k[1], k[2], <<>>) = <<2, 1>>
        /\ CacheEntry(sortedCache, k) = <<1, 2>>
        /\ qres[c] = <<2, 2, 2, 2, 2, 2>>
        /\ qres[e] = <<1, 1, 1, 1, 1, 2>>

\* the pair the Percentiles call of c is about
AskedPair(c) == <<qarg[c].d, qarg[c].b>>

\* c holds the results its Percentiles call computed from samples
HoldsResults(c) == qpc[c] \in {"hit", "miss", "found"}

\* C34: when readers miss the sorted cache of one pair concurrently and no
\* RecordRequest intervenes, the samples are copied and sorted once: a reader
\* sorts under the write lock only while the pair has no snapshot, the snapshot
\* stays, every other reader finds it there after looking again, leaves it as
\* it is and computes its results from it; all readers of the pair hold the
\* same values.
C34_SortedOnce ==
    /\ [][\A c \in Queriers :
              /\ (qpc[c] = "upgrade" /\ qpc'[c] = "miss") =>
                     /\ CacheEntry(sortedCache, AskedPair(c)) = <<>>
                     /\ CacheEntry(sortedCache', AskedPair(c)) # <<>>
              /\ (qpc[c] = "upgrade" /\ qpc'[c] # "upgrade"
                      /\ CacheEntry(sortedCache, AskedPair(c)) # <<>>) =>
                     /\ qpc'[c] = "found"
                     /\ sortedCache' = sortedCache
                     /\ \A i \in 1..Len(qarg[c].ps) :
                            qres'[c][i] = KthSmallest(CacheEntry(sortedCache, AskedPair(c)),
                                              quantileIndex(Len(CacheEntry(sortedCache, AskedPair(c))),
                                                            qarg[c].ps[i]) + 1)
              /\ \A k \in MPairs :
                     CacheEntry(sortedCache, k) # <<>> =>
                         CacheEntry(sortedCache', k) = CacheEntry(sortedCache, k)]_vars
    /\ [](\A c, e \in Queriers :
              (HoldsResults(c) /\ HoldsResults(e) /\ AskedPair(c) = AskedPair(e)
                   /\ qarg[c].ps = qarg[e].ps) => qres[c] = qres[e])

\* 1, 2, 1 were recorded for ("d1", "b1"), which leaves the samples 2, 1; both
\* readers missed the cache; one has sorted them, the other found the snapshot
\* 1, 2 under the write lock and holds the same results
C34_Witness ==
    \E c, e \in Queriers :
        /\ qpc[c] = "miss" /\ qpc[e] = "found"
        /\ qarg[c] = qarg[e]
        /\ Get2(latencySamples, "d1", "b1", <<>>) = <<2, 1>>
        /\ CacheEntry(sortedCache, <<"d1", "b1">>) = <<1, 2>>
        /\ qres[c] = <<1, 1, 1, 1, 1, 2>>
        /\ qres[e] = qres[c]

\* the host names a full sync of the orchestrator o caches: those of its agents
\* and those the status of each relevant job reports
RECURSIVE HostsOf(_, _, _)
HostsOf(o, hosts, todo) ==
    IF todo = {} THEN hosts
    ELSE LET j == CHOOSE x \in todo : TRUE
         IN HostsOf(o, cacheAgents(hosts, o.status[j].Agents, 1), todo \ {j})

\* the route tables derived from the state of the orchestrator o
DerivedRoutes(o) ==
    LET rel == relevantJobs(tagFilter, o.jobs)
    IN buildRoutes(HostsOf(o, cacheAgents(EmptyMap, o.agents, 1), rel),
                   cacheJobs(EmptyMap, o.jobs, 1),
                   rel,
                   [j \in rel |-> o.status[j].TasksByAgent])

\* C35: when the orchestrator announces every change by an event naming the
\* job, the stream stays open, every fetch succeeds and nobody cancels, the
\* route table eventually is, and from then on stays, a table derived from the
\* orchestrator's final state.
C35_EventualConsistency == <>[](routes \in DerivedRoutes(orch))

\* the Healthy flags of the backends of a route
HealthyFlags(route) == [i \in 1..Len(route.Backends) |-> route.Backends[i].Healthy]

\* C36: with the watcher as the only caller of Update, every route of the
\* table has at least one backend and all its backends are healthy; so
\* GetHealthyBackend on a route of the table, whatever the route's cursor,
\* does not return nil, and the proxy has no 503 to answer.
C36_PublishedRoutesServable ==
    \A p \in DOMAIN routes :
        LET flags == HealthyFlags(routes[p])
        IN /\ Len(flags) >= 1
           /\ \A i \in 1..Len(flags) : flags[i]
           /\ \A start \in 0..(2^CursorBits - 1) : scanFrom(start, flags, 0) # 0

\* the watcher is streaming and has published a table in which two jobs share
\* a pattern: the route has a backend of each, and a stopped task, a task
\* without a port and a task on an agent without a host name gave none
C36_Witness ==
    /\ pc = "select"
    /\ relevant = {"j1", "j2"}
    /\ DOMAIN routes = {PatExact}
    /\ Len(routes[PatExact].Backends) = 2
    /\ \E j \in JobNames : \E a \in DOMAIN MapGet(tasks, j, EmptyMap) :
           \E i \in 1..Len(tasks[j][a]) : tasks[j][a][i].State = "stopped"

\* a sync attempt that covers job j is running: a full sync, or syncJob(j)
SyncCovers(j) ==
    \E i \in 1..Len(stack) : stack[i].fn = "sync" \/ stack[i].job = j

\* the stream has ended: the reader has closed lineCh, or watchSSE has returned
StreamOver == reader = "closed" \/ pc \in {"run_after", "retry_wait", "stopped"}

\* C37: an event the select loop has accepted for job j (j is pending and the
\* loop waits for its next input) is followed by a sync attempt that covers j,
\* a full sync or syncJob(j), started after the event was received, unless the
\* watcher is cancelled or the stream ends first.
C37_AcceptedEventSynced ==
    \A j \in JobNames :
        (pc = "select" /\ j \in pending) ~> (SyncCovers(j) \/ cancelled \/ StreamOver)

\* the event for j2 was accepted while the timer, armed by the event for j1,
\* was running; the handler has synced j1 and now runs syncJob for j2
C37_Witness ==
    /\ pending = {"j1", "j2"}
    /\ events = 2
    /\ stack = <<JobFrame("j2")>>
    /\ pc = "job_status"
    /\ cyc.topIncr = {"j1", "j2"}
    /\ cyc.nStatus["j1"] = 1

\* the stream loop of watchSSE has returned
LoopReturned == pc \in {"run_after", "retry_wait", "stopped"}

\* C38: once the stream loop has returned, the line-reader goroutine is not
\* left blocked on handing over a line that nobody will receive.
C38_ReaderTerminates == LoopReturned => reader \notin {"send", "stuck"}

\* the debounce handler's own call of syncJob returns after a successful fetch
IncrementalSynced ==
    /\ pc = "job_status"
    /\ base = "fire_incr"
    /\ Len(stack) = 1
    /\ stack' = <<>>

\* the backends of the table rs that the tasks of job k contribute
JobBackends(rs, k) == {b \in BackendsOf(rs) : b.Address[2] \in PortsOf(k)}

\* the step replaces the task entry of job j only, and caches host names only
\* for agents that the status of j names
CacheFrame(j) ==
    /\ jobs' = jobs
    /\ relevant' = relevant
    /\ DOMAIN tasks' = DOMAIN tasks \cup {j}
    /\ tasks'[j] = orch.status[j].TasksByAgent
    /\ \A k \in DOMAIN tasks \ {j} : tasks'[k] = tasks[k]
    /\ DOMAIN agentHosts \subseteq DOMAIN agentHosts'
    /\ \A a \in DOMAIN agentHosts' :
           (a \notin DOMAIN agentHosts \/ agentHosts'[a] # agentHosts[a])
               => \E i \in 1..Len(orch.status[j].Agents) :
                      /\ orch.status[j].Agents[i].ID = a
                      /\ agentHosts'[a] = extractHost(orch.status[j].Agents[i].Endpoint)

\* C39 as stated: a successful incremental sync of job J replaces only J's
\* task entry (jobs map, relevant set and the other jobs' task entries are
\* unchanged, host names are only added or refreshed for agents named in the
\* response), and in the rebuilt route table the backends contributed by the
\* other jobs are the same as before.
C39_OtherBackendsSame ==
    [][IncrementalSynced =>
          /\ CacheFrame(Top.job)
          /\ \A k \in JobNames \ {Top.job} : JobBackends(routes', k) = JobBackends(routes, k)]_vars

\* C39, amended: a successful incremental sync of job J replaces only J's
\* task entry (jobs map, relevant set and the other jobs' task entries are
\* unchanged, host names are only added or refreshed for agents named in the
\* response), and the rebuilt route table is one built from the updated cache:
\* the backends of the other jobs are recomputed from their unchanged task
\* entries and the updated host names, and can differ from those before.
C39_OnlyJobEntryReplaced ==
    [][IncrementalSynced =>
          /\ CacheFrame(Top.job)
          /\ routes' \in buildRoutes(agentHosts', jobs', relevant', tasks')]_vars

\* the debounce handler has synced j1 after a1 moved, and the backend of j2,
\* whose task entry is the one cached before the move, is now on the new host
C39_Witness ==
    /\ base = "fire_incr"
    /\ stack = <<>>
    /\ att.kind = "incr" /\ att.job = "j1" /\ att.done /\ ~att.failed
    /\ "j2" \in DOMAIN tasks
    /\ MapGet(agentHosts, "a1", "") = "h2"
    /\ Backend("h2", JobPort("j2")) \in BackendsOf(routes)

\* the select loop of watchSSE waits for its next input
AwaitsInput == pc = "select"

\* the debounce timer runs, or has expired with its case not yet taken
TimerPending == debounce \in {"armed", "fired"}

\* C40: whenever the streaming loop waits for its next input, the debounce
\* timer is armed (or has fired and is not yet handled) exactly when the
\* pending set is non-empty, and every pending job is unknown to the cache or
\* relevant; the loop comes back to the select, after a debounce fire as after
\* the set-up, with an empty pending set.
C40_PendingAndTimer ==
    /\ [](AwaitsInput =>
             /\ TimerPending <=> pending # {}
             /\ \A j \in pending : j \notin DOMAIN jobs \/ j \in relevant)
    /\ [][(~AwaitsInput /\ AwaitsInput') => pending' = {}]_vars

\* the loop waits with the timer fired, a relevant and an unknown job pending,
\* after an earlier sync has filled the cache
C40_Witness ==
    /\ AwaitsInput
    /\ debounce = "fired"
    /\ pending = {"j1", "j2"}
    /\ "j1" \in relevant
    /\ "j2" \notin DOMAIN jobs

====
